---- MODULE Spec2Model ----
(***************************************************************************)
(* CarrerMVP: the chat route (src/app/api/chat/route.ts).                  *)
(*                                                                         *)
(* The route is stateless: every request carries the whole transcript and  *)
(* the handler rebuilds the role, the facts and the interview counters     *)
(* from it.  The transcript is unbounded, so the model keeps the values    *)
(* the handler's scans compute from it (the window since the last start    *)
(* marker, the last assistant and user message, the set of rewritten       *)
(* roles) and updates them message by message with the bodies of the       *)
(* handler's loops.                                                        *)
(*                                                                         *)
(* A text is modelled by the set of the substrings / regular expressions   *)
(* of the recognisers that occur in it ("markers").  The marker sets of    *)
(* the texts the route emits are read off the string literals of the       *)
(* source; marker names drop Polish diacritics.  JavaScript's \b and \w    *)
(* are ASCII-only, so "podaj skalę (" does not match /skal[ęe]\b/.         *)
(***************************************************************************)
EXTENDS Integers, Sequences, FiniteSets, TLC

(***************************************************************************)
(* Bounds of the model.                                                    *)
(***************************************************************************)
\* counters of the interview state are kept up to this value (closure needs 2)
CountCap == 3
\* the total of asked questions is kept up to this value (the cap is 6)
TotalCap == 7
\* number of questions really shown for one role, kept up to this value
GhostCap == 7
\* number of questions of one kind really shown for one role, kept up to this
KindCap == 3
\* number of roles in the pinned CV
MaxRoles == 2

QuestionKind == {"ACTIONS", "SCALE", "PROCESS", "RESULT", "CONTEXT"}
NoKind == "NONE"

Inc(n, cap) == IF n < cap THEN n + 1 ELSE cap

(***************************************************************************)
(* Texts emitted by the route, as marker sets.                             *)
(***************************************************************************)
\* 'Co konkretnie TY zrobiłeś w tej roli? Podaj 2–3 działania, bez "my".'
Q1 == {"co konkretnie", "2-3", "dzial", "dzialani", "podaj", "?"}

\* 'Jeśli w tej roli był proces pozyskania (...) — opisz 2–4 etapy od
\*  pierwszego kontaktu do finalizacji.'
Q_PROCESS == {"proces pozyskania", "proces", "2-4", "etap", "finaliz"}

\* 'Jaki był punkt odniesienia (baseline) dla tego wyniku? Podaj
\*  baseline/zmianę (1 zdanie).'
Q_CONTEXT_FALLBACK ==
  {"jaki byl", "punkt odniesienia", "baseline", "podaj", "podaj baseline",
   "baseline/zmian", "?"}

\* 'Jaki był punkt odniesienia dla: <metric>?\nPodaj baseline/zmianę
\*  (wystarczy 1 zdanie).\nPodpowiedź: podaj baseline jako X → Y (np. m/m lub
\*  vs poprzedni okres).'   (the variant with an anchor lacks only "x->y")
buildContextQuestion ==
  {"jaki byl", "punkt odniesienia", "baseline", "podaj", "podaj baseline",
   "baseline/zmian", "?", "x->y", "m/m", "vs poprzedni"}

Domains ==
  {"MARKETING", "ECOM", "SALES", "PM", "DEV", "QA", "SUPPORT", "ADMIN", "GENERIC"}

\* the wording of a role: its domain, or one of the two overrides
Wording(role) ==
  IF role.domain = "MARKETING" /\ role.social THEN "SOCIAL"
  ELSE IF role.domain = "SALES" /\ role.salesSupport THEN "SALES_SUPPORT"
  ELSE role.domain

\* ' Jeśli nie możesz podać wrażliwych danych — podaj proxy (widełki / % /
\*  trend / wolumen).'
ScaleSafe == {"podaj", "widelk", "wolumen"}

\* every scale question starts with 'Podaj skalę (' or 'Podaj skalę działań ('
\* or 'Podaj proxy skali ('
ScaleWords(w, cant) ==
  CASE w = "MARKETING" -> {"podaj", "dzial"}
    [] w = "ECOM" -> {"podaj"}
    [] w = "SALES" -> {"podaj", "widelk"}
    [] w = "PM" -> {"podaj", "widelk"}
    [] w = "DEV" -> {"podaj"}
    [] w = "QA" -> {"podaj"}
    [] w = "SUPPORT" -> {"podaj"}
    [] w = "ADMIN" -> {"podaj", "proces"}
    [] w = "GENERIC" -> {"podaj", "wolumen", "proces"}
    [] w = "SOCIAL" -> IF cant THEN {"podaj", "proxy skali"} ELSE {"podaj"}
    [] w = "SALES_SUPPORT" -> {"podaj", "crm"}

buildScaleQuestion(role, cant) ==
  ScaleWords(Wording(role), cant) \cup (IF cant THEN ScaleSafe ELSE {})

\* ' Jeśli nie możesz podać wrażliwych danych — podaj proxy (widełki / % /
\*  trend).'
ResultSafe == {"podaj", "widelk"}

\* every result question starts with 'Jaki był efekt? Podaj 1–2'
ResultHead == {"jaki byl", "jaki byl efekt", "podaj", "?"}

ResultWords(w, cant) ==
  CASE w = "SALES" -> {"widelk", "etap"}
    [] w = "ADMIN" -> {"wolumen"}
    [] w = "SALES_SUPPORT" -> {"crm"}
    [] w = "SOCIAL" -> IF cant THEN {"widelk"} ELSE {}
    [] OTHER -> {}

buildResultQuestion(role, cant) ==
  ResultHead \cup ResultWords(Wording(role), cant)
    \cup (IF cant THEN ResultSafe ELSE {})

\* 'Ok, w takim razie zacznijmy od „T”.\n'
IntroStart == {"zacznijmy od"}
\* 'Ok, teraz „T”.\n'
IntroNow == {"teraz <<"}
\* 'Lecimy dalej — teraz „T”.\n'
IntroNext == {"lecimy dalej - teraz", "teraz <<"}

\* the audit listing (buildAudit): the fixed head and the prompt line, plus the
\* 'braki: ...' summary of every role (analyzeRoleMissing)
AuditHead ==
  {"co zrobiles", "proces", "narzedz", "wybierz rol", "wpisz numer",
   "numbered list"}

\* what the signal functions find in a text (hasActionsSignal, hasScaleSignal,
\* hasAcquisitionProcessSignal, a hard result, hasBaselineContextSignal, /100 %/)
Signals == {"actions", "scale", "process", "result", "baseline", "100%"}

\* does the acquisition-process question make sense for the role
shouldAskAcquisitionProcess(role) ==
  /\ role.domain \in {"SALES", "MARKETING", "ECOM"}
  /\ role.acq

analyzeRoleMissing(role) ==
  LET missingActions == "actions" \notin role.block
      missingScale == "scale" \notin role.block
      missingResult == "result" \notin role.block
      missingProcess ==
        shouldAskAcquisitionProcess(role) /\ "process" \notin role.block
      \* hasAnyNumber(block): a block with a scale and a hard result has numerals
      missingContext == "baseline" \notin role.block
  IN (IF missingResult THEN {"metryk"} ELSE {})
       \cup (IF missingScale THEN {"widelk"} ELSE {})
       \cup (IF missingActions THEN {"2-3", "dzial"} ELSE {})
       \cup (IF missingProcess THEN {"2-4", "etap", "proces"} ELSE {})
       \cup (IF ~missingResult /\ ~missingScale /\ ~missingActions
                /\ missingContext
             THEN {"baseline", "baseline/zmian"} ELSE {})

\* 'Na MVP pracujemy tylko na sekcji Doswiadczenie.\nWklej Doswiadczenie
\*  (stanowiska + daty + opis).'
Onboarding == {"na mvp pracujemy", "wklej doswiadczenie"}

buildAudit(roles) ==
  IF Len(roles) = 0 THEN Onboarding
  ELSE AuditHead \cup UNION {analyzeRoleMissing(roles[i]) : i \in DOMAIN roles}

\* '=== BEFORE (T) === ... === AFTER (T) === ... Chcesz poprawić kolejną rolę?'
\* The bullets of a rewrite are taken to contain no marker of a question.
RewriteText == {"=== before", "=== after (", "chcesz poprawic kolejna role", "?"}

\* 'Nie widzę kolejnych ról do przerobienia. ...'
DoneText == {}

(***************************************************************************)
(* Recognisers.                                                            *)
(***************************************************************************)
isAudit(t) ==
  /\ "wpisz numer" \in t
  /\ ("wybierz rol" \in t \/ "numbered list" \in t)

isRewrite(t) == "=== before" \in t \/ "=== after (" \in t

isPostRewritePrompt(t) ==
  "=== after (" \in t /\ "chcesz poprawic kolejna role" \in t

\* one step of the backward scan of findInterviewStartIndex: is this
\* assistant message a start marker
IsStartMarker(t) ==
  \/ isAudit(t)
  \/ "zacznijmy od" \in t
  \/ "lecimy dalej - teraz" \in t
  \/ "teraz <<" \in t

inferQuestionKindFromAssistant(t) ==
  IF "punkt odniesienia" \in t \/ "baseline" \in t \/ "podaj baseline" \in t
       \/ "m/m" \in t \/ "mom" \in t \/ "qoq" \in t
  THEN "CONTEXT"
  ELSE IF "co konkretnie" \in t /\ "2-3" \in t /\ "dzial" \in t
  THEN "ACTIONS"
  ELSE IF "jaka byla skala" \in t \/ "widelk" \in t \/ "wolumen" \in t
            \/ "liczba osob" \in t
  THEN "SCALE"
  ELSE IF "proces pozyskania" \in t
            \/ ("etap" \in t /\ "finaliz" \in t /\ "2-4" \in t)
  THEN "PROCESS"
  ELSE IF "jaki byl wynik" \in t \/ "wynik twoich dzialan" \in t
            \/ "bezpieczny proxy" \in t \/ "metryk" \in t
  THEN "RESULT"
  ELSE NoKind

looksLikeContextQuestion(t) ==
  /\ ("podaj" \in t \/ "jaki byl" \in t \/ "?" \in t)
  /\ \/ "punkt odniesienia" \in t
     \/ "podaj baseline" \in t
     \/ "podaj kontekst" \in t
     \/ "baseline/zmian" \in t
     \/ "x->y" \in t
     \/ "vs poprzedni" \in t
     \/ "m/m" \in t

looksLikeResultQuestion(t) ==
  /\ ~looksLikeContextQuestion(t)
  /\ ("jaki byl efekt" \in t \/ "jaki byl wynik" \in t \/ "podaj efekt" \in t)

\* /\bpodaj\s+(proxy\s+)?skal[ęe]\b/, /\bskal[ęe]\s+dzia[lł]a[nń]\b/ and
\* /\bproxy\s+skali\b/: of the emitted texts only 'Podaj proxy skali (' matches
looksLikeScaleQuestion(t) ==
  \/ "podaj skale\\b" \in t
  \/ "skale dzialan\\b" \in t
  \/ "proxy skali" \in t

inferLastAskedKind(t) ==
  IF looksLikeScaleQuestion(t) THEN "SCALE"
  ELSE IF looksLikeResultQuestion(t) THEN "RESULT"
  ELSE IF looksLikeContextQuestion(t) THEN "CONTEXT"
  ELSE IF "proces" \in t \/ "narzedz" \in t \/ "crm" \in t THEN "PROCESS"
  ELSE IF "co zrobiles" \in t \/ "dzialani" \in t THEN "ACTIONS"
  ELSE NoKind

(***************************************************************************)
(* User messages.  A reply is one of a few texts, each standing for the    *)
(* replies that the recognisers below treat alike:                         *)
(*   "cv"         the pasted experience section (first message)            *)
(*   "1", "2"     a role number                                            *)
(*   "tak"        confirmation after a rewrite                             *)
(*   "nie wiem", "nie podam", "to poufne"   three ways to decline          *)
(*   "vague"      'trudno powiedzieć': no signal, no refusal               *)
(*   "ans:k"      an answer in which the signal functions find fact k      *)
(***************************************************************************)
Declines == {"nie wiem", "nie podam", "to poufne"}

Answer(k) ==
  CASE k = "ACTIONS" -> "ans:actions"
    [] k = "SCALE" -> "ans:scale"
    [] k = "PROCESS" -> "ans:process"
    [] k = "RESULT" -> "ans:result"
    [] k = "CONTEXT" -> "ans:baseline"

Replies ==
  {"cv", "1", "2", "tak", "vague"} \cup Declines
    \cup {Answer(k) : k \in QuestionKind}

\* the signals the signal functions find in a user message
TextSignals(u) ==
  CASE u = "ans:actions" -> {"actions"}
    [] u = "ans:scale" -> {"scale"}
    [] u = "ans:process" -> {"process"}
    [] u = "ans:result" -> {"result"}
    [] u = "ans:baseline" -> {"baseline"}
    [] OTHER -> {}

\* /^\s*\d{1,2}\s*$/
isJustNumberChoice(u) == u \in {"1", "2"}

extractChosenNumber(u) == IF u = "1" THEN 1 ELSE IF u = "2" THEN 2 ELSE 0

looksLikeMultiRoleExperiencePasteStrong(u) == u = "cv"

\* /(nie mogę|nie moge|...|poufne|confidential|...)/
userCannotShare(u) == u = "to poufne"

\* empty, punctuation only, length <= 2, /^[a-z]{1,3}$/, 'nie wiem', ...
userNonAnswer(u) == u \in {"1", "2", "tak", "nie wiem"}

\* '?', 'nie wiem', 'brak danych', 'nie pamiętam', 'nie mogę podać', 'nie podam'
looksLikeDeclineAnswer(u) == u \in {"nie wiem", "nie podam"}

\* no 'stop|koniec|nie|wystarczy', no paste, no 1-2 digit number, <= 40 chars
userWantsContinueAfterRewrite(u) == u \in {"tak", "vague"}

\* 'brak danych|brak|nie wiem|n/a' become the sentinel; nothing here is empty
normalizeAnswerForFacts(u) == IF u = "nie wiem" THEN "__UNKNOWN__" ELSE u

(***************************************************************************)
(* Facts and interview state.                                              *)
(***************************************************************************)
extractInterviewFactsFromText(sig) ==
  [hasActions |-> "actions" \in sig,
   hasScale |-> "scale" \in sig,
   hasProcess |-> "process" \in sig,
   hasResult |-> "result" \in sig,
   hasContext |-> "baseline" \in sig,
   needsContext |->
     "result" \in sig /\ "baseline" \notin sig /\ "100%" \notin sig]

NoFacts == extractInterviewFactsFromText({})

ZeroCounts == [k \in QuestionKind |-> 0]

\* freshState of the continue branch; the state of a transcript with no
\* assistant message
freshState ==
  [askedCounts |-> ZeroCounts, declinedCounts |-> ZeroCounts, askedTotal |-> 0]

\* the scan of computeInterviewState before its first message; answers is the
\* result of collectUserAnswers over the same window, each signal with the
\* role that was being interviewed when the answer was given
EmptyWindow ==
  [askedCounts |-> ZeroCounts, declinedCounts |-> ZeroCounts, askedTotal |-> 0,
   currentKind |-> NoKind, answers |-> {}]

\* loop body of computeInterviewState for an assistant message
ScanAssistant(w, t) ==
  LET k == inferQuestionKindFromAssistant(t)
  IN IF k # NoKind
     THEN [w EXCEPT !.currentKind = k,
                    !.askedCounts[k] = Inc(@, CountCap),
                    !.askedTotal = Inc(@, TotalCap)]
     ELSE w

\* loop body of computeInterviewState for a user message, and the filter of
\* collectUserAnswers
ScanUser(w, u, r) ==
  LET ans ==
        IF looksLikeMultiRoleExperiencePasteStrong(u) \/ isJustNumberChoice(u)
        THEN w.answers
        ELSE w.answers \cup {<<r, s>> : s \in TextSignals(u)}
      w1 == [w EXCEPT !.answers = ans]
  IN IF w.currentKind = NoKind THEN w1
     ELSE IF isJustNumberChoice(u) THEN w1
     ELSE IF looksLikeMultiRoleExperiencePasteStrong(u) THEN w1
     ELSE IF userCannotShare(u) \/ userNonAnswer(u)
     THEN [w1 EXCEPT !.declinedCounts[w.currentKind] = Inc(@, CountCap),
                     !.currentKind = NoKind]
     ELSE [w1 EXCEPT !.currentKind = NoKind]

\* computeInterviewState(messages, findInterviewStartIndex(messages))
computeInterviewState(w) ==
  [askedCounts |-> w.askedCounts, declinedCounts |-> w.declinedCounts,
   askedTotal |-> w.askedTotal]

\* the texts of collectUserAnswers, as signals
collectUserAnswers(w) == {a[2] : a \in w.answers}

maxQuestions == 6

declined(state, k) ==
  state.declinedCounts[k] >= 1 \/ state.askedCounts[k] >= 2

Ask(k) == [kind |-> "ASK", qk |-> k]
Rewrite == [kind |-> "REWRITE", qk |-> NoKind]

\* the decision with Scale tried before Actions
decideScaleFirst(shouldAskProcess, facts, state) ==
  IF state.askedTotal >= maxQuestions THEN Rewrite
  ELSE IF ~facts.hasScale /\ ~declined(state, "SCALE") THEN Ask("SCALE")
  ELSE IF ~facts.hasActions /\ ~declined(state, "ACTIONS") THEN Ask("ACTIONS")
  ELSE IF shouldAskProcess /\ ~facts.hasProcess /\ ~declined(state, "PROCESS")
  THEN Ask("PROCESS")
  ELSE IF ~facts.hasResult
  THEN (IF ~declined(state, "RESULT") THEN Ask("RESULT") ELSE Rewrite)
  ELSE IF ~facts.hasContext /\ ~declined(state, "CONTEXT") THEN Ask("CONTEXT")
  ELSE Rewrite

decideNextInterviewStep(shouldAskProcess, facts, state) ==
  IF state.askedTotal >= maxQuestions THEN Rewrite
  ELSE IF ~facts.hasActions /\ ~declined(state, "ACTIONS") THEN Ask("ACTIONS")
  ELSE IF ~facts.hasScale /\ ~declined(state, "SCALE") THEN Ask("SCALE")
  ELSE IF shouldAskProcess /\ ~facts.hasProcess /\ ~declined(state, "PROCESS")
  THEN Ask("PROCESS")
  ELSE IF ~facts.hasResult
  THEN (IF ~declined(state, "RESULT") THEN Ask("RESULT") ELSE Rewrite)
  ELSE IF ~facts.hasContext /\ ~declined(state, "CONTEXT") THEN Ask("CONTEXT")
  ELSE Rewrite

(***************************************************************************)
(* Rewrite guard: numbers.  A text is a sequence of characters.            *)
(***************************************************************************)
\* longest text handed to the guard as the rewrite
MaxText == 5
\* longest allowed-fact text
MaxAllowed == 3

Digits == {"0", "1", "2", "3", "4", "5", "6", "7", "8", "9"}
\* \w of the regular expression, over the characters the texts are drawn from
WordChars == Digits \cup {"k", "_"}
Alphabet == {"1", ".", ",", " ", "k"}

Texts(n) == UNION {[1..m -> Alphabet] : m \in 0..n}

IsDigitAt(s, i) == i >= 1 /\ i <= Len(s) /\ s[i] \in Digits
DigitsFrom(s, i, n) == \A j \in i..(i + n - 1) : IsDigitAt(s, j)

RECURSIVE RunLen(_, _)
\* length of the run of digits that starts at position i
RunLen(s, i) == IF IsDigitAt(s, i) THEN 1 + RunLen(s, i + 1) ELSE 0

\* (?!\w) at position j
NotWordAt(s, j) == j > Len(s) \/ s[j] \notin WordChars

\* (?:[.,]\d+)? followed by (?!\w), tried at position j: the position after
\* the match, 0 when there is none
Fraction(s, j) ==
  IF /\ j <= Len(s)
     /\ s[j] \in {".", ","}
     /\ IsDigitAt(s, j + 1)
     /\ NotWordAt(s, j + 1 + RunLen(s, j + 1))
  THEN j + 1 + RunLen(s, j + 1)
  ELSE IF NotWordAt(s, j) THEN j ELSE 0

RECURSIVE Groups(_, _)
\* (?:[ .,_]\d{3})* and what follows it, greedy with backtracking
Groups(s, j) ==
  IF j <= Len(s) /\ s[j] \in {" ", ".", ",", "_"} /\ DigitsFrom(s, j + 1, 3)
  THEN LET r == Groups(s, j + 4)
       IN  IF r # 0 THEN r ELSE Fraction(s, j)
  ELSE Fraction(s, j)

\* one attempt of the expression at position i
MatchAt(s, i) ==
  LET Grouped(d) == IF DigitsFrom(s, i, d) THEN Groups(s, i + d) ELSE 0
      run == RunLen(s, i)
  IN  IF i > 1 /\ s[i - 1] \in WordChars THEN 0      \* (?<!\w)
      ELSE IF Grouped(3) # 0 THEN Grouped(3)
      ELSE IF Grouped(2) # 0 THEN Grouped(2)
      ELSE IF Grouped(1) # 0 THEN Grouped(1)
      ELSE IF run > 0 /\ NotWordAt(s, i + run) THEN i + run   \* |\d+
      ELSE 0

Remove(s, chars) == SelectSeq(s, LAMBDA c : c \notin chars)
Replace(s, a, b) == [i \in 1..Len(s) |-> IF s[i] = a THEN b ELSE s[i]]

RECURSIVE MatchesFrom(_, _)
\* text.match(re) with the g flag, from position i on
MatchesFrom(s, i) ==
  IF i > Len(s) THEN <<>>
  ELSE LET e == MatchAt(s, i)
       IN  IF e # 0 THEN <<SubSeq(s, i, e - 1)>> \o MatchesFrom(s, e)
           ELSE MatchesFrom(s, i + 1)

extractNumbersLoose(text) ==
  LET m == MatchesFrom(text, 1)
  IN  [i \in 1..Len(m) |-> Remove(m[i], {" ", "_"})]

expandNumberVariants(tokens) ==
  UNION {{tokens[i], Replace(tokens[i], ",", "."), Replace(tokens[i], ".", ",")} :
           i \in 1..Len(tokens)}

hasUnverifiedNumbers(rewriteText, allowedFacts) ==
  LET allowed == expandNumberVariants(extractNumbersLoose(allowedFacts))
      gotRaw == extractNumbersLoose(rewriteText)
  IN  \E i \in 1..Len(gotRaw) :
        /\ gotRaw[i] \notin allowed
        /\ Replace(gotRaw[i], ",", ".") \notin allowed
        /\ Replace(gotRaw[i], ".", ",") \notin allowed

(***************************************************************************)
(* Deterministic fallback.  A text is a sequence of lines, a line of the   *)
(* output a pair <<marker, text>>.                                         *)
(***************************************************************************)
\* most lines of a role block
MaxBlockLines == 3
\* most lines of the user's facts
MaxFactLines == 1

RoleTitle == "T"
Lines ==
  {"", "nie wiem", "T", "T | 2020", "a", "b", "Skala: s", "Wynik: w",
   "CTR 5%", "Jira"}

LineTexts(n) == UNION {[1..m -> Lines] : m \in 0..n}

\* l.includes('|') || a year or MM.YYYY in the line
headerLike(l) == l = "T | 2020"
\* /^skala\s*:/i
IsScaleLine(l) == l = "Skala: s"
\* /^(wynik|result)\s*:/i
IsResultLine(l) == l = "Wynik: w"
\* the metric names of the second search for resultLine
HasMetricName(l) == l = "CTR 5%"
\* l.includes('%') || /\d/.test(l)
HasNumber(l) == l \in {"CTR 5%", "T | 2020"}
\* a name of toolHints occurs in the line
HasTool(l) == l = "Jira"

Slice(q, n) == SubSeq(q, 1, IF Len(q) < n THEN Len(q) ELSE n)
\* Array.prototype.find, "" for undefined
Find(q, P(_)) ==
  LET hits == SelectSeq(q, P) IN IF hits = <<>> THEN "" ELSE hits[1]

RECURSIVE CloseUp(_, _, _)
\* while (bullets.length < 3 && actionCandidates.length) { ... }
CloseUp(bullets, actionCandidates, mark) ==
  IF /\ Len(bullets) < 3
     /\ Len(actionCandidates) > 0
     /\ Len(bullets) >= 1
     /\ Len(bullets) <= Len(actionCandidates)
  THEN CloseUp(Append(bullets, <<mark, actionCandidates[Len(bullets)]>>),
               actionCandidates, mark)
  ELSE bullets

buildDeterministicRewriteFallback(roleTitle, roleBlockText, userFactsText) ==
  LET linesAll == SelectSeq(roleBlockText \o userFactsText, LAMBDA l : l # "")
      linesAllClean == SelectSeq(linesAll, LAMBDA l : ~userNonAnswer(l))
      contentLines ==
        SelectSeq(linesAllClean, LAMBDA l : l # roleTitle /\ ~headerLike(l))
      scaleLine == Find(linesAllClean, IsScaleLine)
      resultLine ==
        IF Find(linesAllClean, IsResultLine) # ""
        THEN Find(linesAllClean, IsResultLine)
        ELSE Find(linesAllClean, HasMetricName)
      toolsFound == SelectSeq(linesAllClean, HasTool) # <<>>
      actionCandidates ==
        SelectSeq(contentLines, LAMBDA l : ~IsScaleLine(l) /\ ~IsResultLine(l))
      actions == Slice(actionCandidates, 4)
      extras ==
        (IF scaleLine # "" THEN <<<<"-", scaleLine>>>> ELSE <<>>)
          \o (IF resultLine # "" /\ (IsResultLine(resultLine) \/ HasNumber(resultLine))
              THEN <<<<"-", resultLine>>>> ELSE <<>>)
          \o (IF toolsFound THEN <<<<"- Proces / narzedzia:", "Jira">>>> ELSE <<>>)
      aBullets == [i \in 1..Len(actions) |-> <<"-", actions[i]>>] \o extras
      aFinal == Slice(CloseUp(aBullets, actionCandidates, "-"), 8)
      actionsRotated ==
        IF Len(actions) > 1 THEN Tail(actions) \o <<actions[1]>> ELSE actions
      bBullets ==
        [i \in 1..Len(actions) |-> <<"- Realizacja:", actionsRotated[i]>>]
          \o extras
      bFinal == Slice(CloseUp(bBullets, actionCandidates, "- Realizacja:"), 8)
      beforeLines == Slice(contentLines, 12)
  IN  <<<<"=== BEFORE", roleTitle>>>>
        \o [i \in 1..Len(beforeLines) |-> <<"", beforeLines[i]>>]
        \o <<<<"=== AFTER", roleTitle>>, <<"Wersja A (bezpieczna):", "">>>>
        \o aFinal
        \o <<<<"Wersja B (mocniejsza):", "">>>>
        \o bFinal
        \o <<<<"", "">>, <<"Chcesz poprawic kolejna role?", "">>>>

(***************************************************************************)
(* CV source text.  A text is a sequence of lines, a line a sequence of    *)
(* words (<<>> is a blank line); the words of a line are separated by one  *)
(* blank.  The lines carry no indentation, no markdown decoration and no   *)
(* date token, which is all that stripLeadingIndentAllLines,               *)
(* stripMarkdownDecorationsAllLines, deglueDateTokens, normalizeDateDashes *)
(* and injectCvLineBreaks change.                                          *)
(***************************************************************************)
\* most words of a line of a source text
MaxWords == 2
\* most lines of a source text
MaxCvLines == 3

Words == {"abc", "Abc", "xyz.", "-", "ABCD"}
\* the header line of a role block, 'Title - Company | dates' in one word
HeaderWord == "T | 2020"
WordLines == UNION {[1..n -> Words] : n \in 0..MaxWords}
CvTexts(n) == UNION {[1..m -> WordLines] : m \in 0..n}

toLowerCase(w) ==
  CASE w = "Abc" -> "abc"
    [] w = "K" -> "k"
    [] w = "ABCD" -> "abcd"
    [] OTHER -> w

toUpperCase(w) ==
  CASE w \in {"abc", "Abc"} -> "ABC"
    [] w = "xyz." -> "XYZ."
    [] OTHER -> w

RECURSIVE Render(_)
\* the characters of a line
Render(l) ==
  IF l = <<>> THEN ""
  ELSE IF Len(l) = 1 THEN l[1]
  ELSE l[1] \o " " \o Render(Tail(l))

RECURSIVE trim(_)
\* String.prototype.trim on a text: the blank lines at its ends go
trim(t) ==
  IF t = <<>> THEN t
  ELSE IF Head(t) = <<>> THEN trim(Tail(t))
  ELSE IF t[Len(t)] = <<>> THEN trim(SubSeq(t, 1, Len(t) - 1))
  ELSE t

\* the lines of t at the positions kept, in order
KeepLines(t, kept) ==
  LET at == SelectSeq([i \in 1..Len(t) |-> i], LAMBDA i : i \in kept)
  IN  [k \in 1..Len(at) |-> t[at[k]]]

\* first and last line of the run of blank lines that holds line p
RunStart(t, p) ==
  CHOOSE j \in 1..p :
    /\ \A k \in j..p : t[k] = <<>>
    /\ j = 1 \/ t[j - 1] # <<>>
RunEnd(t, p) ==
  CHOOSE j \in p..Len(t) :
    /\ \A k \in p..j : t[k] = <<>>
    /\ j = Len(t) \/ t[j + 1] # <<>>

\* t.replace(new RegExp(`\\n{${max + 2},}`, 'g'), '\n'.repeat(max + 1)): a run
\* of line ends is cut to max + 1 of them, which is maxBlankLines blank lines
\* between two lines and one more where the run touches an end of the text
collapseBlankLines(t, maxBlankLines) ==
  LET cap(p) ==
        maxBlankLines + (IF RunStart(t, p) = 1 THEN 1 ELSE 0)
                      + (IF RunEnd(t, p) = Len(t) THEN 1 ELSE 0)
  IN  KeepLines(t, {p \in 1..Len(t) :
                      t[p] # <<>> \/ p - RunStart(t, p) + 1 <= cap(p)})

\* the key dedupeConsecutiveLines compares by
LineKey(l) == [i \in 1..Len(l) |-> toLowerCase(l[i])]

\* a line goes when the line right before it is not blank and has its key
dedupeConsecutiveLines(t) ==
  KeepLines(t, {p \in 1..Len(t) :
                  ~(p > 1 /\ t[p] # <<>> /\ LineKey(t[p]) = LineKey(t[p - 1]))})

\* /^[-•*]\s+/ on the trimmed line
isBullet(l) == Len(l) >= 2 /\ l[1] = "-"

\* isHeadingLike of unwrapHardWrap
isHeadingLike(l) ==
  /\ l # <<>>
  /\ ~isBullet(l)
  /\ Len(Render(l)) >= 4
  /\ Len(Render(l)) <= 160
  /\ \/ /\ \E i \in 1..Len(l) : l[i] = "ABCD"
        /\ \A i \in 1..Len(l) : toUpperCase(l[i]) = l[i]
     \/ \E i \in 2..(Len(l) - 1) : l[i] = "-"
     \/ \E i \in 1..Len(l) : l[i] = HeaderWord

\* /[.!?…:;)]\s*$/
endsSentence(l) == l # <<>> /\ l[Len(l)] = "xyz."
\* /^[a-ząćęłńóśźż0-9(]/
startsLowerOrContinuation(l) == l # <<>> /\ l[1] \in {"abc", "xyz."}

RECURSIVE Unwrap(_, _)
\* the loop of unwrapHardWrap from line i on
Unwrap(lines, i) ==
  IF i > Len(lines) THEN <<>>
  ELSE LET cur == lines[i]
           next == IF i < Len(lines) THEN lines[i + 1] ELSE <<>>
       IN  IF cur = <<>> \/ isBullet(cur) \/ isHeadingLike(cur)
           THEN <<cur>> \o Unwrap(lines, i + 1)
           ELSE IF /\ next # <<>>
                   /\ ~isBullet(next)
                   /\ ~isHeadingLike(next)
                   /\ ~endsSentence(cur)
                   /\ startsLowerOrContinuation(next)
                THEN <<cur \o next>> \o Unwrap(lines, i + 2)
                ELSE <<cur>> \o Unwrap(lines, i + 1)

unwrapHardWrap(text) ==
  IF trim(text) = <<>> THEN text
  ELSE trim(collapseBlankLines(Unwrap(text, 1), 1))

preprocessCvSource(text) ==
  LET t == trim(text)
  IN  IF t = <<>> THEN <<>>
      ELSE trim(collapseBlankLines(dedupeConsecutiveLines(
             unwrapHardWrap(
               collapseBlankLines(dedupeConsecutiveLines(t), 1))), 1))

(***************************************************************************)
(* The rewrite on its way to the user.  A rewrite is a sequence of lines   *)
(* <<marker, text>>; a header line carries the title written in its        *)
(* parentheses, Untitled when it has none ("=== BEFORE ===").  The         *)
(* generator's lines carry no number, no prompt leak and no bare text      *)
(* inside a variant, so that stripCvMetaAndFiller,                         *)
(* cleanRewriteArtifacts, fixRewriteVersionHeaderSpacing,                  *)
(* repairRewriteBullets and enforceDashBulletsStrict leave them alone and  *)
(* hasUnverifiedNumbers finds nothing.                                     *)
(***************************************************************************)
\* most lines of the body of a role block
MaxBodyLines == 3

Untitled == "NONE"
Blank == <<"", "">>
CTA == "Chcesz poprawic kolejna role?"
RoleTitles == {"T", "T (B2B)"}
BodyWords == {"abc", "de", "xyz."}

\* the lines of a source text as the strings the fallback splits it into
Rendered(t) == [i \in 1..Len(t) |-> Render(t[i])]
NonBlank(t) == SelectSeq(t, LAMBDA l : l # <<>>)

\* role blocks as extractRoleBlock cuts them from the preprocessed CV: the
\* header line and the lines below it
RoleBlocks ==
  {<<<<HeaderWord>>>> \o preprocessCvSource(b) :
     b \in UNION {[1..m -> {<<w>> : w \in BodyWords}] : m \in 0..MaxBodyLines}}

\* rewriteHasStrictDashBullets: 3-8 bullets in a version
MinBullets == 3
MaxBullets == 8
BulletWords == <<"d", "e", "f", "g", "h", "i", "j", "k", "l">>

\* 'w efekcie f', a bullet with a phrase of hasBannedCausalPhrases
BannedPhrase == "w efekcie f"

\* a rewrite without the AFTER header, and one without Wersja B
NoAfterHeader ==
  <<<<"=== BEFORE", "x">>, <<"Wersja A (bezpieczna):", "">>,
    <<"-", "a">>, <<"-", "b">>, <<"-", "c">>,
    <<"Wersja B (mocniejsza):", "">>,
    <<"-", "d">>, <<"-", "e">>, <<"-", "f">>, <<CTA, "">>>>
NoVersionB ==
  <<<<"=== BEFORE", "x">>, <<"=== AFTER", "x">>,
    <<"Wersja A (bezpieczna):", "">>,
    <<"-", "a">>, <<"-", "b">>, <<"-", "c">>,
    <<"-", "d">>, <<"-", "e">>, <<"-", "f">>, <<CTA, "">>>>

\* copies of the CTA line the generator may add: none, '- Chcesz poprawić
\* kolejną rolę?', '* Chcesz poprawić kolejną rolę?' before the BEFORE header;
\* the line once, or once more with a dash, at the end
CtaOnTop == {<<>>, <<<<"-", CTA>>>>, <<<<"*", CTA>>>>}
CtaAtEnd == {<<<<CTA, "">>>>, <<<<CTA, "">>, <<"-", CTA>>>>}

\* what the generator may write
Generated ==
  {top \o <<<<"=== BEFORE", h1>>>> \o body \o <<<<"=== AFTER", h2>>>>
     \o <<<<"Wersja A (bezpieczna):", "">>>> \o a
     \o <<<<"Wersja B (mocniejsza):", "">>>> \o b
     \o end :
     top \in CtaOnTop, end \in CtaAtEnd,
     h1 \in {Untitled, "x"}, h2 \in {Untitled, "x"},
     body \in {<<>>, <<<<"", "zz">>>>},
     a \in {<<<<"-", "a">>, <<"-", "b">>, <<"-", "c">>>>,
            <<<<"-", "a">>, <<"-", "a">>, <<"-", "b">>>>},
     b \in {<<<<"-", "d">>, <<"-", "e">>, <<"-", "f">>>>,
            <<<<"- Realizacja:", "a">>, <<"- Realizacja:", "b">>,
              <<"- Realizacja:", "c">>>>,
            <<<<"-", "d">>, <<"-", "e">>>>,
            <<<<"-", "d">>, <<"-", "e">>, <<"-", BannedPhrase>>>>,
            [i \in 1..(MaxBullets + 1) |-> <<"-", BulletWords[i]>>]}}
    \cup {<<>>, NoAfterHeader, NoVersionB}

\* the lines of the section that a marker opens, up to the next marker of ends
Section(t, from, ends) ==
  LET start == CHOOSE i \in 1..Len(t) : t[i][1] = from
      stop == IF \E i \in (start + 1)..Len(t) : t[i][1] \in ends
              THEN CHOOSE i \in (start + 1)..Len(t) :
                     /\ t[i][1] \in ends
                     /\ \A j \in (start + 1)..(i - 1) : t[j][1] \notin ends
              ELSE Len(t) + 1
  IN  SubSeq(t, start + 1, stop - 1)
BulletsOf(q) == SelectSeq(q, LAMBDA l : l[1] \in {"-", "- Realizacja:", "- Proces / narzedzia:"})
HasMarker(t, m) == \E i \in 1..Len(t) : t[i][1] = m

Least(S) == CHOOSE i \in S : \A j \in S : i <= j

\* out.replace(/(^|\n)\s*-\s*Realizacja:\s*/g, '$1- ')
StripRealizacja(text) ==
  [i \in 1..Len(text) |->
     IF text[i][1] = "- Realizacja:" THEN <<"-", text[i][2]>> ELSE text[i]]

\* the first header of the kind with a title in parentheses gets roleTitle
ReplaceFirstTitle(text, marker, roleTitle) ==
  LET hits == {i \in 1..Len(text) :
                 text[i][1] = marker /\ text[i][2] # Untitled}
  IN  IF hits = {} THEN text
      ELSE [text EXCEPT ![Least(hits)] = <<marker, roleTitle>>]

enforceRewriteRoleHeaders(text, roleTitle) ==
  ReplaceFirstTitle(ReplaceFirstTitle(text, "=== BEFORE", roleTitle),
                    "=== AFTER", roleTitle)

RewriteMarkers ==
  {"=== BEFORE", "=== AFTER", "Wersja A (bezpieczna):",
   "Wersja B (mocniejsza):", CTA}

\* mode of dedupeBulletsInAB when it reads line i
ModeAt(text, i) ==
  LET before == {j \in 1..(i - 1) : text[j][1] \in RewriteMarkers}
  IN  IF before = {} THEN "NONE"
      ELSE LET m == text[CHOOSE j \in before : \A k \in before : k <= j][1]
           IN  CASE m = "Wersja A (bezpieczna):" -> "A"
                 [] m = "Wersja B (mocniejsza):" -> "B"
                 [] OTHER -> "NONE"

dedupeBulletsInAB(text) ==
  KeepLines(text,
    {i \in 1..Len(text) :
       ~(/\ text[i][1] = "-"
         /\ ModeAt(text, i) # "NONE"
         /\ \E j \in 1..(i - 1) :
              text[j] = text[i] /\ ModeAt(text, j) = ModeAt(text, i))})

\* \([^)]+\) matches the title of a header
Parenthesised(h) == h \notin {Untitled, "T (B2B)"}

enforceDeterministicBeforeSection(txt, roleTitle, roleBlockText) ==
  LET beforeBody == preprocessCvSource(roleBlockText)
      clipped == Slice(NonBlank(beforeBody), 12)
      before ==
        <<<<"=== BEFORE", roleTitle>>>>
          \o [i \in 1..Len(clipped) |-> <<"", Render(clipped[i])>>]
          \o <<Blank>>
      afters(i) ==
        {j \in (i + 1)..Len(txt) :
           txt[j][1] = "=== AFTER" /\ Parenthesised(txt[j][2])}
      starts ==
        {i \in 1..Len(txt) :
           /\ txt[i][1] = "=== BEFORE"
           /\ Parenthesised(txt[i][2])
           /\ afters(i) # {}}
  IN  IF starts = {} THEN txt
      ELSE SubSeq(txt, 1, Least(starts) - 1) \o before
             \o SubSeq(txt, Least(afters(Least(starts))), Len(txt))

\* a rewrite as a text whose blank lines are <<>>, and back
AsText(t) == [i \in 1..Len(t) |-> IF t[i] = Blank THEN <<>> ELSE t[i]]
AsRewrite(t) == [i \in 1..Len(t) |-> IF t[i] = <<>> THEN Blank ELSE t[i]]

RECURSIVE trimEnd(_)
trimEnd(t) ==
  IF t # <<>> /\ t[Len(t)] = <<>> THEN trimEnd(SubSeq(t, 1, Len(t) - 1))
  ELSE t

\* ctaRe: the line, with or without a dash in front of it
MatchesCtaRe(l) == l[1] = CTA \/ l = <<"-", CTA>>

ensureRewriteCta(txt) ==
  LET t == [i \in 1..Len(txt) |->
              IF MatchesCtaRe(txt[i]) THEN <<>> ELSE AsText(txt)[i]]
      cut == trimEnd(collapseBlankLines(t, 1))
  IN  AsRewrite(trimEnd(collapseBlankLines(cut \o <<<<>>, <<CTA, "">>>>, 1)))

normalizeForUI(text, maxBlankLines) ==
  AsRewrite(trim(collapseBlankLines(AsText(text), maxBlankLines)))

IsBulletLine(l) == l[1] \in {"-", "- Realizacja:", "- Proces / narzedzia:"}

rewriteLooksValid(text) ==
  /\ HasMarker(text, "=== BEFORE")
  /\ HasMarker(text, "=== AFTER")
  /\ HasMarker(text, "Wersja A (bezpieczna):")
  /\ HasMarker(text, "Wersja B (mocniejsza):")
  /\ \E i, j \in 1..Len(text) :
       i < j /\ text[i][1] = "Wersja A (bezpieczna):"
             /\ text[j][1] = "Wersja B (mocniejsza):"
  /\ Len(BulletsOf(Section(text, "Wersja A (bezpieczna):",
                           {"Wersja B (mocniejsza):"}))) >= 3
  /\ Len(BulletsOf(Section(text, "Wersja B (mocniejsza):", {}))) >= 3

rewriteVersionsIdentical(text) ==
  LET a == SelectSeq(Section(text, "Wersja A (bezpieczna):",
                             {"Wersja B (mocniejsza):"}),
                     LAMBDA l : l # Blank)
      b == SelectSeq(Section(text, "Wersja B (mocniejsza):", {CTA}),
                     LAMBDA l : l # Blank)
  IN  a # <<>> /\ a = b

rewriteHasStrictDashBullets(txt) ==
  LET a == SelectSeq(Section(txt, "Wersja A (bezpieczna):",
                             {"Wersja B (mocniejsza):"}),
                     LAMBDA l : l # Blank)
      b == SelectSeq(Section(txt, "Wersja B (mocniejsza):", {CTA}),
                     LAMBDA l : l # Blank)
  IN  /\ Len(a) >= MinBullets /\ Len(a) <= MaxBullets
      /\ Len(b) >= MinBullets /\ Len(b) <= MaxBullets
      /\ \A i \in 1..Len(a) : IsBulletLine(a[i])
      /\ \A i \in 1..Len(b) : IsBulletLine(b[i])

\* the guard pipeline of the REWRITE branch on a generator output
GuardedRewrite(llmOut, selectedRoleTitle, roleBlockText) ==
  normalizeForUI(
    ensureRewriteCta(
      enforceDeterministicBeforeSection(
        dedupeBulletsInAB(
          enforceRewriteRoleHeaders(StripRealizacja(llmOut),
                                    selectedRoleTitle)),
        selectedRoleTitle, roleBlockText)), 1)

\* banned.some((p) => t.includes(p))
hasBannedCausalPhrases(text) ==
  \E i \in 1..Len(text) : text[i][2] = BannedPhrase

\* the guards without the comparison of the versions, the strict bullets
\* and the banned phrases
RewriteInvalidLoose(text) == ~rewriteLooksValid(text)

RewriteInvalid(text) ==
  \/ ~rewriteLooksValid(text)
  \/ rewriteVersionsIdentical(text)
  \/ ~rewriteHasStrictDashBullets(text)
  \/ hasBannedCausalPhrases(text)

\* is the text returned the generator's
FromGenerator(llmOut, selectedRoleTitle, roleBlockText) ==
  /\ llmOut # <<>>
  /\ ~RewriteInvalid(GuardedRewrite(llmOut, selectedRoleTitle, roleBlockText))

\* assistantText of the REWRITE branch
RewriteReturned(llmOut, selectedRoleTitle, roleBlockText, userFacts) ==
  IF FromGenerator(llmOut, selectedRoleTitle, roleBlockText)
  THEN GuardedRewrite(llmOut, selectedRoleTitle, roleBlockText)
  ELSE normalizeForUI(
         ensureRewriteCta(
           enforceDeterministicBeforeSection(
             buildDeterministicRewriteFallback(
               selectedRoleTitle, Rendered(roleBlockText), Rendered(userFacts)),
             selectedRoleTitle, roleBlockText)), 1)

(***************************************************************************)
(* Roles.  A title and a date range are sequences of characters.           *)
(***************************************************************************)
\* most roles of a list handed to dedupeRoles
MaxRoleList == 3

\* [a-z0-9] among the characters in use
AlphaNum ==
  {"a", "d", "e", "i", "k", "l", "n", "o", "p", "t", "u", "y", "z", "0", "2"}

\* 'daty do uzupelnienia', its l with a stroke written "l/"
DatesToFill ==
  <<"d", "a", "t", "y", " ", "d", "o", " ", "u", "z", "u", "p", "e", "l/",
    "n", "i", "e", "n", "i", "a">>

\* the titles and date ranges of the roles handed to dedupeRoles
TitleTexts ==
  {<<"K", "e,">>, <<"k", "e">>, <<"k", "e", "!">>, <<"k", " ", "e">>,
   <<"k", "l/">>, <<"k", "l">>}
DateTexts == {<<>>, <<"2", "0">>, <<"2", "-", "0">>, DatesToFill}

\* s.normalize('NFD').replace(/[̀-ͯ]/g, ''), character by character:
\* the ogonek is a combining mark, the stroke of "l/" is not
stripDiacritics(s) == [i \in 1..Len(s) |-> IF s[i] = "e," THEN "e" ELSE s[i]]

RECURSIVE TrimChars(_)
\* String.prototype.trim on a sequence of characters
TrimChars(s) ==
  IF s = <<>> THEN s
  ELSE IF Head(s) = " " THEN TrimChars(Tail(s))
  ELSE IF s[Len(s)] = " " THEN TrimChars(SubSeq(s, 1, Len(s) - 1))
  ELSE s

\* norm of roleKey; collapsing the white space first does not change what
\* .replace(/[^a-z0-9]+/g, '') leaves
Norm(s) ==
  SelectSeq([i \in 1..Len(s) |-> toLowerCase(stripDiacritics(s)[i])],
            LAMBDA c : c \in AlphaNum)

\* `${norm(title)}|${norm(dates)}`
roleKey(title, dates) == <<Norm(title), Norm(dates)>>

\* the title and the dates dedupeRoles works with
RoleTitleOf(r) == TrimChars(r.title)
RoleDatesOf(r) ==
  IF TrimChars(r.dates) = <<>> THEN DatesToFill ELSE TrimChars(r.dates)

\* a variant that keeps the last occurrence of a key
dedupeKeepLast(roles) ==
  LET k(i) == roleKey(RoleTitleOf(roles[i]), RoleDatesOf(roles[i]))
      kept == {i \in 1..Len(roles) :
                 /\ RoleTitleOf(roles[i]) # <<>>
                 /\ ~\E j \in (i + 1)..Len(roles) :
                       RoleTitleOf(roles[j]) # <<>> /\ k(j) = k(i)}
      at == SelectSeq([i \in 1..Len(roles) |-> i], LAMBDA i : i \in kept)
  IN  [n \in 1..Len(at) |->
         [title |-> RoleTitleOf(roles[at[n]]),
          dates |-> RoleDatesOf(roles[at[n]])]]

RECURSIVE DedupeFrom(_, _, _)
\* the loop of dedupeRoles from role i on, with the keys seen so far
DedupeFrom(roles, i, seen) ==
  IF i > Len(roles) THEN <<>>
  ELSE LET title == RoleTitleOf(roles[i])
           dates == RoleDatesOf(roles[i])
           k == roleKey(title, dates)
       IN  IF title = <<>> \/ k \in seen
           THEN DedupeFrom(roles, i + 1, seen)
           ELSE <<[title |-> title, dates |-> dates]>>
                  \o DedupeFrom(roles, i + 1, seen \cup {k})

dedupeRoles(roles) == DedupeFrom(roles, 1, {})

(***************************************************************************)
(* Segmentation.  A line of the CV is a record: a one-line role header     *)
(* 'Title - Company[, City] | date - date' with what the recognisers find  *)
(* in it, the same header without its dates, a line of dates, a bullet of  *)
(* a body, a blank line.  Of preprocessCvSource only injectCvLineBreaks    *)
(* changes such lines.                                                     *)
(***************************************************************************)
\* most role headers of a CV
MaxHeaders == 2
\* most body lines under a header
MaxBodyLinesPerRole == 2

BlankLine == [kind |-> "blank"]
DatesLine(d) == [kind |-> "dates", dates |-> d]
Bullet(i, k) == [kind |-> "bullet", text |-> <<i, k>>]

\* the i-th header of a CV: job (hasJobTitleKeyword), city (', City' after
\* the company), co (hasCompanySuffix), caps (isAllCapsLine), tc
\* (isTitleCaseish, which a comma rules out)
HeaderLines(i) ==
  {h \in [kind : {"header"}, title : {i}, dates : {i}, job : BOOLEAN,
          city : BOOLEAN, co : BOOLEAN, caps : BOOLEAN, tc : BOOLEAN] :
     h.city => ~h.tc}

RoleLines(h, b) == <<h>> \o [k \in 1..b |-> Bullet(h.title, k)]

RECURSIVE CvsOf(_)
\* CVs of n well-formed one-line headers, each followed by body text
CvsOf(n) ==
  IF n = 0 THEN {<<>>}
  ELSE {c \o RoleLines(h, b) :
          c \in CvsOf(n - 1), h \in HeaderLines(n),
          b \in 1..MaxBodyLinesPerRole}

LineAt(lines, k) == IF k >= 1 /\ k <= Len(lines) THEN lines[k] ELSE BlankLine

IsHeaderKind(l) == l.kind \in {"header", "headerPart"}

\* a date range stands in the line
isDateLineLike(l) == l.kind \in {"header", "dates"}
hasDateInSameLine(l) == l.kind \in {"header", "dates"}
\* /\s(\-|-)\s/: the separator of title and company
hasDashSeparator(l) == IsHeaderKind(l)

\* text, then a date range: { headerPart, dates, inlineBody } or null
splitHeaderDatesAndInlineBody(l) == l.kind = "header"

looksLikeCompanyLocationLine(l) ==
  /\ l.kind = "header"    \* ' | ' inside the line and a date range in it
  /\ l.city
  /\ ~l.job

looksLikeRoleHeaderLine(l, n) ==
  /\ IsHeaderKind(l)      \* not blank, no bullet, no digit at its start
  /\ ~looksLikeCompanyLocationLine(l)
  /\ IF isDateLineLike(n)
     THEN hasDashSeparator(l) \/ l.co \/ l.caps \/ l.job \/ l.tc
     ELSE IF hasDateInSameLine(l) /\ hasDashSeparator(l)
     THEN l.co \/ l.caps \/ (l.job /\ l.tc)
     ELSE IF hasDashSeparator(l) /\ l.co THEN TRUE
     ELSE IF hasDashSeparator(l) /\ l.job THEN l.caps \/ l.tc
     ELSE FALSE

RECURSIVE BreakLines(_)
\* t.replace(range, '\n$1 - $2\n'): every date range on a line of its own
BreakLines(t) ==
  IF t = <<>> THEN <<>>
  ELSE (IF Head(t).kind = "header"
        THEN <<[Head(t) EXCEPT !.kind = "headerPart"],
               DatesLine(Head(t).dates), BlankLine>>
        ELSE <<Head(t)>>) \o BreakLines(Tail(t))

\* long: the trimmed text has 120 characters or more
injectCvLineBreaks(t, long) ==
  IF Len(t) - 1 >= 4 \/ ~long \/ ~\E i \in 1..Len(t) : t[i].kind = "header"
  THEN t
  ELSE BreakLines(t)

RECURSIVE BodyEnd(_, _)
\* the inner loop: the first line from j on that is a role header
BodyEnd(lines, j) ==
  IF j > Len(lines) THEN j
  ELSE IF looksLikeRoleHeaderLine(lines[j], LineAt(lines, j + 1)) THEN j
  ELSE BodyEnd(lines, j + 1)

BodyLinesOf(lines, from, to) ==
  SelectSeq(SubSeq(lines, from, to), LAMBDA l : l # BlankLine)

RECURSIVE BlocksFrom(_, _)
\* the outer loop of parseExperienceIntoRoleBlocks from line i on
BlocksFrom(lines, i) ==
  IF i > Len(lines) THEN <<>>
  ELSE LET lineRaw == lines[i]
           nextRaw == LineAt(lines, i + 1)
       IN  IF splitHeaderDatesAndInlineBody(lineRaw)
           THEN LET j == BodyEnd(lines, i + 1)
                IN  <<[title |-> lineRaw.title, datesLine |-> lineRaw.dates,
                       bodyLines |-> BodyLinesOf(lines, i + 1, j - 1)]>>
                      \o BlocksFrom(lines, j)
           ELSE IF ~looksLikeRoleHeaderLine(lineRaw, nextRaw)
           THEN BlocksFrom(lines, i + 1)
           ELSE LET dated == nextRaw.kind = "dates"
                    startBodyIdx == IF dated THEN i + 2 ELSE i + 1
                    j == BodyEnd(lines, startBodyIdx)
                IN  <<[title |-> lineRaw.title,
                       datesLine |-> IF dated THEN nextRaw.dates ELSE 0,
                       bodyLines |-> BodyLinesOf(lines, startBodyIdx, j - 1)]>>
                      \o BlocksFrom(lines, j)

parseExperienceIntoRoleBlocks(input, long) ==
  BlocksFrom(injectCvLineBreaks(input, long), 1)

(***************************************************************************)
(* Role headers.  A header line is a sequence of tokens: words, the        *)
(* separators "-" and "@" (with blanks around them), ",", "|" and a date   *)
(* range.                                                                  *)
(***************************************************************************)
DateRange == "06.2022 - 12.2024"
\* words of the roleWords list; "QA" is the shortest of them
JobWords == {"Specialist", "QA"}
\* a word the company-suffix pattern matches
SuffixWords == {"Ltd"}
TitleSeparators == {"-", "@"}
NoHeader == [title |-> <<>>, dates |-> "NONE"]

\* the text between separators: a title, a company, a company and its city
HeaderSegments ==
  {<<"Specialist">>, <<"QA">>, <<"Papaka">>, <<"Papaka", "Ltd">>,
   <<"Papaka", ",", "Warszawa">>, <<"Specialist", ",", "Warszawa">>}
HeaderTails == {<<>>, <<"|", DateRange>>, <<"|", "Papaka">>}
HeaderTexts ==
  {a \o t : a \in HeaderSegments, t \in HeaderTails}
    \cup {a \o <<s>> \o b \o t : a \in HeaderSegments, s \in TitleSeparators,
                                 b \in HeaderSegments, t \in HeaderTails}

FirstIndex(s, toks) ==
  IF \E i \in 1..Len(s) : s[i] \in toks
  THEN Least({i \in 1..Len(s) : s[i] \in toks})
  ELSE 0
Before(s, i) == IF i = 0 THEN s ELSE SubSeq(s, 1, i - 1)
After(s, i) == IF i = 0 THEN <<>> ELSE SubSeq(s, i + 1, Len(s))
Has(s, toks) == FirstIndex(s, toks) # 0
\* the first separator with text on both sides: split(' | '), split(' - ')
FirstInner(s, toks) ==
  IF \E i \in 2..(Len(s) - 1) : s[i] \in toks
  THEN Least({i \in 2..(Len(s) - 1) : s[i] \in toks})
  ELSE 0
\* s.length
Length(s) == Len(Render(s))

looksLikeDateRangeLoose(s) == Has(s, {DateRange})

tryParseOneLineRoleHeader(line) ==
  LET bar == FirstIndex(line, {"|"})
      left == Before(line, bar)
      datesPart == After(line, bar)
      dashSplit == Before(left, FirstInner(left, {"-"}))
      title == IF dashSplit = <<>> THEN left ELSE dashSplit
  IN  IF line = <<>> \/ bar = 0 THEN NoHeader
      ELSE IF ~looksLikeDateRangeLoose(datesPart) THEN NoHeader
      ELSE IF Length(title) < 3 THEN NoHeader
      ELSE [title |-> title, dates |-> DateRange]

hasRoleWords(s) == Has(s, JobWords)
\* every path of the function but the one of the role words returns true
_looksLikeLocationOrCompany(x) == ~hasRoleWords(x)

_roleTitleScore(x) ==
  IF x = <<>> THEN 0 - 999
  ELSE (IF hasRoleWords(x) THEN 4 ELSE 0)
       + (IF Length(x) <= 30 THEN 2 ELSE 0)
       - (IF Length(x) > 45 THEN 2 ELSE 0)
       - (IF Has(x, {","}) THEN 3 ELSE 0)
       - (IF Has(x, SuffixWords) THEN 3 ELSE 0)

\* { head, dates }: the line up to its date range
_stripDatesFromEnd(line) == Before(line, FirstIndex(line, {DateRange}))

parseOneLineRoleHeader(lineRaw) ==
  LET head == _stripDatesFromEnd(lineRaw)
      left == Before(head, FirstInner(head, {"|"}))
      dash == FirstInner(left, {"-"})
      at == FirstInner(left, {"@"})
      sep == IF dash # 0 THEN dash ELSE at
      candTitle == Before(left, sep)
      candRest == After(left, sep)
      company == Before(candRest, FirstIndex(candRest, {","}))
      swap == /\ _looksLikeLocationOrCompany(candTitle)
              /\ _roleTitleScore(company) > _roleTitleScore(candTitle)
      title == IF swap THEN company ELSE candTitle
  IN  IF lineRaw = <<>> \/ sep = 0 THEN NoHeader
      ELSE IF _looksLikeLocationOrCompany(title) THEN NoHeader
      ELSE [title |-> title,
            dates |-> IF Has(lineRaw, {DateRange}) THEN DateRange ELSE "NONE"]

tryParseTwoLineRoleHeader(titleLineRaw, metaLineRaw) ==
  IF titleLineRaw = <<>> \/ metaLineRaw = <<>> THEN NoHeader
  ELSE IF ~Has(metaLineRaw, {"|"}) /\ ~Has(metaLineRaw, {DateRange})
  THEN NoHeader
  ELSE IF _looksLikeLocationOrCompany(titleLineRaw) THEN NoHeader
  ELSE [title |-> titleLineRaw,
        dates |-> IF Has(metaLineRaw, {DateRange}) THEN DateRange
                  ELSE "daty do uzupelnienia"]

(***************************************************************************)
(* Requests over texts in which no role is found.  The handler keeps no    *)
(* state, so its response is a function of the request: the pinned CV text *)
(* and the user messages of the transcript; no role is selected in the     *)
(* body, and the assistant messages between them are the onboarding        *)
(* message.                                                                *)
(***************************************************************************)
\* most user messages of a request
MaxUserMessages == 3
EmptyText == ""
ChatText == "czesc"
\* a header without '|' whose years are not of this or the last century:
\* no role block, no role, but the loose pattern finds a title
LooseText == "Grafik - Studio ABC 1899 - 1999"
RoleLessTexts == {EmptyText, ChatText, LooseText, "1"}

\* '... a zrobie audyt i wybor roli.'
OnboardingEmpty == Onboarding \cup {"a zrobie audyt"}

RECURSIVE SeqsUpTo(_, _)
SeqsUpTo(S, n) ==
  IF n = 0 THEN {<<>>}
  ELSE SeqsUpTo(S, n - 1)
         \cup {Append(q, x) : q \in {p \in SeqsUpTo(S, n - 1) : Len(p) = n - 1},
                              x \in S}

\* a user message with content is among the messages
validateRequestBody(messages) ==
  \E i \in 1..Len(messages) : messages[i] # EmptyText

looksLikeExperiencePaste(t) == t = LooseText
\* no text here has 120 characters: none is added to the pinned text
buildCvTextEffective(cvText, messages) == cvText
detectModeOf(messages, cvTextEffective) ==
  IF Len(messages) = 1
       /\ (cvTextEffective # EmptyText
             \/ looksLikeExperiencePaste(messages[Len(messages)]))
  THEN "AUDIT_ONLY"
  ELSE "NORMAL"
\* the title of the inferred role, '' for null
inferSingleRoleFromLooseText(t) == IF t = LooseText THEN "Grafik" ELSE ""
\* a || b on strings
OrElse(a, b) == IF a # "" THEN a ELSE b

Response(status, text, title, qk) ==
  [status |-> status, assistantText |-> text, title |-> title, qk |-> qk]

POST(cvText, messages) ==
  LET cvTextEffective == buildCvTextEffective(cvText, messages)
      mode == detectModeOf(messages, cvTextEffective)
      lastUserRaw == messages[Len(messages)]
  IN  IF ~validateRequestBody(messages)
      THEN Response(400, {}, "", NoKind)
      ELSE IF mode = "AUDIT_ONLY"
      THEN LET effective == OrElse(cvTextEffective, messages[1])
               inferred == inferSingleRoleFromLooseText(effective)
               s == decideNextInterviewStep(FALSE, NoFacts, freshState)
           IN  IF inferred # ""
               THEN Response(200, IntroStart \cup Q1, inferred, s.qk)
               ELSE Response(200, buildAudit(<<>>), "", NoKind)
      ELSE LET effective == OrElse(cvTextEffective, lastUserRaw)
           IN  IF effective = EmptyText
               THEN Response(200, OnboardingEmpty, "", NoKind)
               ELSE Response(200, buildAudit(<<>>), "", NoKind)

\* the requests of conversations in which every earlier request got the
\* onboarding message
RoleLessRequests ==
  {r \in [cvText : RoleLessTexts \ {"1"},
          messages : SeqsUpTo(RoleLessTexts, MaxUserMessages) \ {<<>>}] :
     \A k \in 1..(Len(r.messages) - 1) :
       POST(r.cvText, SubSeq(r.messages, 1, k)).assistantText
         \in {Onboarding, OnboardingEmpty}}

(***************************************************************************)
(* Result and context in the text of a role.  A text is a set of phrases;  *)
(* Marks says what the patterns of the signal functions find in a phrase.  *)
(***************************************************************************)
\* most phrases of a role's text
MaxPhrases == 3
\* 'from 10% to 18% year over year', and the same after an outcome word
DeltaPhrases ==
  {"from 10% to 18% year over year",
   "increased conversion from 10% to 18% year over year"}
\* '100% terminowosc', 'zero incydentow' (written with o-acute), 'zawsze na
\* czas', 'utrzymanie SLA na poziomie 100%'
CeilingPhrases ==
  {"100% terminowosc", "zero incydentow", "zawsze na czas",
   "utrzymanie sla na poziomie 100%"}
Phrases ==
  DeltaPhrases \cup CeilingPhrases
    \cup {"prowadzilem kampanie", "20 kampanii miesiecznie", "osiaganie celow"}
    \cup {"skala: caly region", "zdrowy pipeline", "obsluga klientow"}

Marks(p) ==
  CASE p = "from 10% to 18% year over year" -> {"number", "delta", "scale"}
    [] p = "increased conversion from 10% to 18% year over year" ->
         {"number", "delta", "outcome", "kpiword", "scale"}
    [] p = "100% terminowosc" ->
         {"number", "outcome", "qualitative", "absolute", "100%", "scale"}
    [] p = "zero incydentow" -> {"outcome"}
    [] p = "zawsze na czas" -> {"absolute"}
    [] p = "utrzymanie sla na poziomie 100%" ->
         {"number", "outcome", "kpiword", "absolute", "100%", "scale"}
    [] p = "prowadzilem kampanie" -> {"actions"}
    [] p = "20 kampanii miesiecznie" -> {"number", "scale"}
    [] p = "osiaganie celow" -> {"soft"}
    [] p = "skala: caly region" -> {"scale label"}
    [] p = "zdrowy pipeline" -> {"kpiword", "volume", "soft"}
    [] p = "obsluga klientow" -> {}
    [] OTHER -> {}

MarksOf(text) == UNION {Marks(p) : p \in text}

hasAnyNumber(m) == "number" \in m

\* a number beside an outcome word, or no number and a qualitative word
hasResultSignal(m) ==
  \/ hasAnyNumber(m) /\ "outcome" \in m
  \/ ~hasAnyNumber(m) /\ "qualitative" \in m

\* explicitDeltaRe, or a line with a KPI word and a digit; the text the
\* facts are taken from is one line (stripDateNoise joins its lines)
hasHardResultSignal(m) ==
  "delta" \in m \/ ("kpiword" \in m /\ hasAnyNumber(m))

isSoftResultOnly(m) == ~hasHardResultSignal(m) /\ "soft" \in m

hasBaselineContextSignal(m) ==
  \/ "delta" \in m
  \/ "period" \in m
  \/ "relative" \in m
  \/ "absolute" \in m /\ ("100%" \in m \/ "wszystkie" \in m)

\* what extractInterviewFactsFromText goes by
SignalsOf(text) ==
  LET m == MarksOf(text)
      \* hasScaleSignal, 'skala:' / 'scale:', a number and a word of volume
      hasScale == \/ "scale" \in m
                  \/ "scale label" \in m
                  \/ hasAnyNumber(m) /\ "volume" \in m
  IN  (m \cap {"actions", "process", "100%"})
        \cup (IF hasScale THEN {"scale"} ELSE {})
        \cup (IF hasResultSignal(m) /\ hasHardResultSignal(m)
                   /\ ~isSoftResultOnly(m)
              THEN {"result"} ELSE {})
        \cup (IF hasBaselineContextSignal(m) THEN {"baseline"} ELSE {})

\* the interview state after one question of kind lk, none for NoKind
StateAfter(lk) ==
  IF lk = NoKind THEN freshState
  ELSE [freshState EXCEPT !.askedCounts[lk] = 1, !.askedTotal = 1]

\* facts, last-turn bridge and step of a request whose last question, of kind
\* lk, got a sensible answer
StepOver(text, lk) ==
  LET f0 == extractInterviewFactsFromText(SignalsOf(text))
      f1 == IF lk = "RESULT" THEN [f0 EXCEPT !.hasResult = TRUE] ELSE f0
      f == IF lk = "CONTEXT"
           THEN [f1 EXCEPT !.hasContext = TRUE, !.needsContext = FALSE]
           ELSE f1
  IN  [facts |-> f0,
       step |-> decideNextInterviewStep(FALSE, f, StateAfter(lk))]

(***************************************************************************)
(* The domain of a role.  A title and a text are sets of the words below;  *)
(* the classifiers test the lower-cased text against one pattern for each  *)
(* domain, in a fixed order.                                               *)
(***************************************************************************)
MaxTitleWords == 1
MaxDomainWords == 3

\* 'Sales Representative', 'Marketing Specialist', 'Project Manager',
\* 'Process Engineer', 'Office Coordinator', 'Recepcjonistka'
TitleWords ==
  {"sales", "marketing", "project manager", "engineer", "office",
   "recepcjonistka"}

\* '- testy manualne produktu', '- budowa pipeline', '- kampanie promocyjne',
\* '- tablica Jira', '- faktury kosztowe', '- rozmowy z klientami',
\* '- wsparcie zespolu'
RoleBodyWords ==
  {"testy manualne", "pipeline", "kampanie", "jira", "faktury", "klienci",
   "wsparcie"}

\* the domains whose pattern in inferRoleDomainWithTitleOverride matches
TitleVocabulary(w) ==
  CASE w = "sales" -> {"SALES"}
    [] w = "marketing" -> {"MARKETING"}
    [] w = "project manager" -> {"PM"}
    [] w = "engineer" -> {"DEV"}
    [] w = "office" -> {"ADMIN"}
    [] OTHER -> {}

\* the domains whose pattern in inferRoleDomain matches
BodyVocabulary(w) ==
  CASE w = "sales" -> {"SALES"}
    [] w = "marketing" -> {"MARKETING"}
    [] w = "project manager" -> {"PM"}
    [] w = "testy manualne" -> {"QA"}
    [] w = "pipeline" -> {"SALES"}
    [] w = "kampanie" -> {"MARKETING"}
    [] w = "jira" -> {"PM"}
    [] w = "faktury" -> {"ADMIN"}
    [] OTHER -> {}

\* the order of the tests in inferRoleDomainWithTitleOverride
TitleOrder == <<"PM", "DEV", "QA", "SUPPORT", "ADMIN", "MARKETING", "ECOM", "SALES">>

\* the order of the tests in inferRoleDomain
BodyOrder == <<"QA", "DEV", "ECOM", "MARKETING", "SALES", "PM", "SUPPORT", "ADMIN">>

\* the first domain of the order among the hits, GENERIC when there is none
FirstDomain(order, hits) ==
  IF \E i \in 1..Len(order) : order[i] \in hits
  THEN order[CHOOSE i \in 1..Len(order) :
               /\ order[i] \in hits
               /\ \A j \in 1..(i - 1) : order[j] \notin hits]
  ELSE "GENERIC"

\* `${roleTitle}\n${roleText}` against the patterns, in BodyOrder
inferRoleDomain(roleTitle, roleText) ==
  FirstDomain(BodyOrder, UNION {BodyVocabulary(w) : w \in roleTitle \cup roleText})

\* the title alone against the title patterns, else inferRoleDomain
inferRoleDomainWithTitleOverride(roleTitle, roleText) ==
  LET hits == UNION {TitleVocabulary(w) : w \in roleTitle}
  IN  IF hits # {} THEN FirstDomain(TitleOrder, hits)
      ELSE inferRoleDomain(roleTitle, roleText)

\* acqRe and the disclaimer pattern of shouldAskAcquisitionProcess
AcquisitionWords == {"pipeline"}
DisclaimerWords == {"wsparcie"}

\* shouldAskAcquisitionProcess over a title and a text (the conversation
\* carries its outcome as the fields domain and acq of a role)
shouldAskAcquisitionProcessOf(roleTitle, allText) ==
  LET t == roleTitle \cup allText
  IN  /\ inferRoleDomain(roleTitle, allText) \in {"SALES", "MARKETING", "ECOM"}
      /\ t \cap AcquisitionWords # {}
      /\ t \cap DisclaimerWords = {}

\* the domain at each place that uses one: the wording of the Scale and
\* Result questions, the acquisition-process test, the hints of a question
\* (buildHintForQuestion: inferRoleDomain('', roleText))
DomainUses(title, body) ==
  LET roleText == title \cup body
  IN  [question |-> inferRoleDomainWithTitleOverride(title, roleText),
       acquisition |-> inferRoleDomain(title, roleText),
       hint |-> inferRoleDomain({}, roleText),
       shouldProcess |-> shouldAskAcquisitionProcessOf(title, roleText)]

(***************************************************************************)
(* Role progression.  After a rewrite and a confirmation the next role is  *)
(* looked up by the key of its title among the titles of the rewrites of   *)
(* the transcript.                                                         *)
(***************************************************************************)
MaxProgressRoles == 3

\* the titles and date ranges of the roles of a CV: 'ke', 'Kę', 'kl';
\* '20', '02'
ProgressTitles == {<<"k", "e">>, <<"K", "e,">>, <<"k", "l">>}
ProgressDates == {<<"2", "0">>, <<"0", "2">>}

\* stripDiacritics(s).toLowerCase().replace(/[^a-z0-9]+/g, '')
keyify(s) == Norm(s)

\* the role whose block extractRoleBlock cuts for a title: the first header
\* of the CV with the key of the title, 0 when there is none
BlockOf(roles, title) ==
  IF \E i \in 1..Len(roles) : keyify(roles[i].title) = keyify(title)
  THEN CHOOSE i \in 1..Len(roles) :
         /\ keyify(roles[i].title) = keyify(title)
         /\ \A j \in 1..(i - 1) : keyify(roles[j].title) # keyify(title)
  ELSE 0

\* the roles a rewrite can stand for in the transcript: a rewrite is made of
\* the block extractRoleBlock cuts for the title of the selected role
Rewritable(roles) == {i \in 1..Len(roles) : BlockOf(roles, roles[i].title) = i}

\* getProcessedRoleKeys: the keys of the titles in the BEFORE headers of the
\* rewrites of the transcript (enforceRewriteRoleHeaders writes the title of
\* the selected role into the header)
getProcessedRoleKeys(roles, rewritten) ==
  {keyify(roles[i].title) : i \in rewritten}

\* findNextUnprocessedRoleTitle over a list of roles: the index of the role
\* whose title is returned, 0 for ''
findNextUnprocessedRoleTitleIn(roles, processedKeys) ==
  IF \E i \in 1..Len(roles) : keyify(roles[i].title) \notin processedKeys
  THEN CHOOSE i \in 1..Len(roles) :
         /\ keyify(roles[i].title) \notin processedKeys
         /\ \A j \in 1..(i - 1) : keyify(roles[j].title) \in processedKeys
  ELSE 0

\* POST, continue after a rewrite: the 'no further roles' message, or the
\* next role and the block its interview starts from
ContinueAfterRewrite(cvRoles, rewritten) ==
  LET roles == dedupeRoles(cvRoles)
      next == findNextUnprocessedRoleTitleIn(
                roles, getProcessedRoleKeys(roles, rewritten))
  IN  [roles |-> roles,
       done |-> next = 0,
       next |-> next,
       block |-> IF next = 0 THEN 0 ELSE BlockOf(roles, roles[next].title)]

(***************************************************************************)
(* The audit listing and the choice of a role by its number.  The listing  *)
(* is the lines '<n>. <title> | <dates>' under a fixed head, closed by the  *)
(* prompt 'Wpisz numer: 1' or 'Wpisz numer: 1-<N>'.                         *)
(***************************************************************************)
\* most roles of a listing: merged.slice(0, 8), Math.min(n, 8)
MaxListed == 8

\* `${idx + 1}. ${r.title} | ${r.dates}` as a number and a line of characters
AuditLine(idx, r) ==
  [number |-> idx, text |-> r.title \o <<" ", "|", " ">> \o r.dates]

\* buildAudit on a list with a role: the head, the numbered lines, the prompt
AuditListing(roles) ==
  [head |-> {"wybierz rol"},
   lines |-> [i \in 1..Len(roles) |-> AuditLine(i, roles[i])],
   prompt |-> [first |-> 1,
               last |-> IF Len(roles) < MaxListed THEN Len(roles)
                        ELSE MaxListed]]

\* isAudit and auditHasNumbering on a listing: the prompt, with the intro or
\* a numbered line; a numbered line
hasNumberedAudit(audit) ==
  /\ audit.prompt.first = 1
  /\ "wybierz rol" \in audit.head \/ Len(audit.lines) > 0
  /\ Len(audit.lines) > 0

\* (.+?)\s+\| on the text after the number: the characters before the first
\* white space that a '|' follows, <<>> when there is none
BeforePipe(s) ==
  LET cuts == {i \in 2..(Len(s) - 1) : s[i] = " " /\ s[i + 1] = "|"}
  IN  IF cuts = {} THEN <<>>
      ELSE SubSeq(s, 1, (CHOOSE i \in cuts : \A j \in cuts : i <= j) - 1)

\* extractRoleTitleFromAuditByNumber: the title of the first line with the
\* number, <<>> for ''
extractRoleTitleFromAuditByNumber(audit, num) ==
  LET hits == {i \in 1..Len(audit.lines) : audit.lines[i].number = num}
  IN  IF hits = {} THEN <<>>
      ELSE TrimChars(BeforePipe(
             audit.lines[CHOOSE i \in hits : \A j \in hits : i <= j].text))

\* POST, the choice of a role by number after the audit: the title taken from
\* the last audit, else roles[n - 1], and the block its interview starts from
ChooseByNumber(cvRoles, n) ==
  LET roles == dedupeRoles(cvRoles)
      audit == AuditListing(roles)
      fromAudit == extractRoleTitleFromAuditByNumber(audit, n)
      selectedRoleTitle ==
        IF fromAudit # <<>> THEN fromAudit
        ELSE IF n \in 1..Len(roles) THEN roles[n].title
        ELSE <<>>
  IN  [roles |-> roles,
       audit |-> audit,
       numbered |-> hasNumberedAudit(audit),
       title |-> selectedRoleTitle,
       block |-> BlockOf(roles, selectedRoleTitle)]

(***************************************************************************)
(* The conversation.                                                       *)
(***************************************************************************)
VARIABLES
  cv,            \* the roles of the pinned CV text, in source order
  turn,          \* "server": a request is in flight; "user": the reply is shown
  lastUser,      \* last user message of the transcript
  lastAssistant, \* last assistant message: text, role title in it, kind asked
  userCount,     \* number of user messages in the transcript (1 or more)
  auditShown,    \* hasNumberedAuditEver(messages)
  processed,     \* getProcessedRoleKeys(messages)
  convRole,      \* findLastRoleTitleInConversation(messages), 0 for ''
  win,           \* scan of the messages since findInterviewStartIndex(messages)
  role,          \* role the last request worked on (0: none)
  facts,         \* InterviewFacts the last request decided with
  state,         \* InterviewState the last request decided with
  step,          \* its step
  resp,          \* kind of its response
  answers,       \* the answers it collected (collectUserAnswers), with
                 \* the role each was given for
  started,       \* the last request started the interview of a new role
  genCalls,      \* calls of the external generator made by the last request
  transport,     \* how its call ended: "NONE" (no call), "OK", "FAILED"
  retried,       \* the request in flight or just answered repeats the one
                 \* before it (same transcript, same pinned text)
  iv,            \* the interview really held with the current role
  out,           \* a generator output after repair, handed to the guard
  allowedFacts,  \* the allowed-fact text it is checked against
  invalid,       \* the guard's verdict on it
  roleBlockText, \* role block handed to the deterministic fallback
  userFactsText, \* the user's facts handed to it
  fallback,      \* the text it returns
  call,          \* the text function applied on its own ("NONE": none)
  args,          \* its arguments
  result         \* what it returned

vars ==
  <<cv, turn, lastUser, lastAssistant, userCount, auditShown, processed,
    convRole, win, role, facts, state, step, resp, answers, started,
    genCalls, transport, retried, iv, out, allowedFacts, invalid, roleBlockText,
    userFactsText,
    fallback, call, args, result>>

\* the variables of the checks of single functions
pure ==
  <<out, allowedFacts, invalid, roleBlockText, userFactsText, fallback, call,
    args, result>>

\* no text function is applied on its own
NoCall == call = "NONE" /\ args = <<>> /\ result = <<>>

Role(d, a, b) ==
  [domain |-> d, social |-> FALSE, salesSupport |-> FALSE, acq |-> a,
   block |-> b]

\* the role blocks the pinned CV is drawn from, by what the signal functions
\* find in them
NothingFound == {}
ActionsOnly == {"actions"}
ContextMissing == {"actions", "scale", "result"}
Complete == {"actions", "scale", "result", "baseline"}

\* a CV with one role
SingleRoles ==
  {Role("GENERIC", FALSE, b) :
     b \in {NothingFound, ContextMissing, Complete}}
    \cup {Role("MARKETING", TRUE, ActionsOnly),
          Role("SALES", TRUE, ContextMissing)}

\* a CV with several roles
FirstRoles == {Role("GENERIC", FALSE, b) : b \in {ActionsOnly, Complete}}
LaterRoles ==
  {Role("GENERIC", FALSE, b) : b \in {NothingFound, ContextMissing, Complete}}

CVs ==
  {<<r>> : r \in SingleRoles}
    \cup {c \in [1..MaxRoles -> FirstRoles \cup LaterRoles] :
            /\ c[1] \in FirstRoles
            /\ \A i \in 2..MaxRoles : c[i] \in LaterRoles}

NoMessage == [text |-> {}, title |-> 0, qk |-> NoKind]
NoStep == [kind |-> "NONE", qk |-> NoKind]
NoInterview ==
  [role |-> 0, asked |-> ZeroCounts, total |-> 0, declined |-> {},
   latched |-> {}]

PureIdle ==
  /\ out = <<>>
  /\ allowedFacts = <<>>
  /\ invalid = "NONE"
  /\ roleBlockText = <<>>
  /\ userFactsText = <<>>
  /\ fallback = <<>>
  /\ NoCall

InitConversation ==
  /\ cv \in CVs
  /\ turn = "server"
  /\ lastUser = "cv"
  /\ lastAssistant = NoMessage
  /\ userCount = 1
  /\ auditShown = FALSE
  /\ processed = {}
  /\ convRole = 0
  /\ win = EmptyWindow
  /\ role = 0
  /\ facts = NoFacts
  /\ state = freshState
  /\ step = NoStep
  /\ resp = "NONE"
  /\ answers = {}
  /\ started = FALSE
  /\ genCalls = 0
  /\ transport = "NONE"
  /\ retried = FALSE
  /\ iv = NoInterview

Init == InitConversation /\ PureIdle

\* detectMode(messages, cvTextEffective); the CV text is pinned
detectMode ==
  IF auditShown THEN "NORMAL"
  ELSE IF userCount = 1 THEN "AUDIT_ONLY"
  ELSE "NORMAL"

\* extractRoleTitleFromStartAssistant(t) is not ''
HasStartTitle(t) ==
  "zacznijmy od" \in t \/ "lecimy dalej - teraz" \in t \/ "teraz <<" \in t

\* the response text is appended to the transcript by the client
\* (assistantText); every scan of later requests sees it
Emit(text, title, qk) ==
  /\ lastAssistant' = [text |-> text, title |-> title, qk |-> qk]
  /\ win' = IF IsStartMarker(text) THEN ScanAssistant(EmptyWindow, text)
            ELSE ScanAssistant(win, text)
  /\ convRole' = IF HasStartTitle(text) \/ isRewrite(text) THEN title
                 ELSE convRole
  /\ auditShown' = (auditShown \/ isAudit(text))
  /\ processed' = IF isRewrite(text) THEN processed \cup {title} ELSE processed
  /\ turn' = "user"

\* the question text of a step, as the three branches of POST build it
QuestionText(r, s, cant, st) ==
  CASE s.qk = "ACTIONS" -> Q1
    [] s.qk = "SCALE" ->
         buildScaleQuestion(cv[r], cant \/ st.declinedCounts["SCALE"] > 0)
    [] s.qk = "PROCESS" -> Q_PROCESS
    [] s.qk = "RESULT" ->
         buildResultQuestion(cv[r], cant \/ st.declinedCounts["RESULT"] > 0)
    [] s.qk = "CONTEXT" ->
         IF st.declinedCounts["CONTEXT"] > 0 THEN Q_CONTEXT_FALLBACK
         ELSE buildContextQuestion
    [] OTHER -> {}

\* a question of kind k is shown for role r; begin says whether it opens r's
\* interview
Asked(r, k, begin) ==
  LET base == IF begin THEN [NoInterview EXCEPT !.role = r] ELSE iv
  IN IF k = NoKind THEN base
     ELSE [base EXCEPT !.asked[k] = Inc(@, KindCap),
                       !.total = Inc(@, GhostCap)]

(***************************************************************************)
(* POST, one action per branch of the handler.                             *)
(***************************************************************************)
\* AUDIT_ONLY with one confidently parsed role: the interview starts at once
PostAuditOnlySingle ==
  /\ turn = "server"
  /\ detectMode = "AUDIT_ONLY"
  /\ Len(cv) = 1
  /\ LET factsFromRole == extractInterviewFactsFromText(cv[1].block)
         factsFromUser == extractInterviewFactsFromText(TextSignals(lastUser))
         f == [hasActions |-> factsFromRole.hasActions \/ factsFromUser.hasActions,
               hasScale |-> factsFromRole.hasScale \/ factsFromUser.hasScale,
               hasProcess |-> factsFromRole.hasProcess \/ factsFromUser.hasProcess,
               hasResult |-> factsFromRole.hasResult \/ factsFromUser.hasResult,
               hasContext |-> factsFromRole.hasContext \/ factsFromUser.hasContext,
               needsContext |->
                 (factsFromRole.needsContext \/ factsFromUser.needsContext)
                   /\ ~(factsFromRole.hasContext \/ factsFromUser.hasContext)]
         \* buildInterviewStateFromMessages: no assistant message yet
         st == freshState
         s == decideNextInterviewStep(shouldAskAcquisitionProcess(cv[1]), f, st)
         q == QuestionText(1, s, FALSE, freshState)
     IN /\ Emit(IntroStart \cup q, 1, s.qk)
        /\ role' = 1
        /\ facts' = f
        /\ state' = st
        /\ step' = s
        /\ resp' = IF s.kind = "ASK" THEN "ASK" ELSE "INTRO"
        /\ answers' = {}
        /\ started' = TRUE
        /\ iv' = Asked(1, s.qk, TRUE)
  /\ genCalls' = 0
  /\ transport' = "NONE"
  /\ UNCHANGED pure
  /\ UNCHANGED <<cv, retried, lastUser, userCount>>

\* the audit listing: AUDIT_ONLY with several roles, or NORMAL with no role
\* selected and none in the conversation
SelectedRole ==
  LET n == extractChosenNumber(lastUser)
      \* title n of the last audit, else roles[n - 1]
      byNumber == IF isJustNumberChoice(lastUser) /\ n \in 1..Len(cv)
                  THEN n ELSE 0
  IN IF byNumber # 0 THEN byNumber ELSE convRole

Continues ==
  /\ isPostRewritePrompt(lastAssistant.text)
  /\ userWantsContinueAfterRewrite(lastUser)

PostAudit ==
  /\ turn = "server"
  /\ \/ detectMode = "AUDIT_ONLY" /\ Len(cv) > 1
     \/ /\ detectMode = "NORMAL"
        /\ ~looksLikeMultiRoleExperiencePasteStrong(lastUser)
        /\ ~Continues
        /\ SelectedRole = 0
  /\ Emit(buildAudit(cv), 0, NoKind)
  /\ role' = 0
  /\ step' = NoStep
  /\ resp' = "AUDIT"
  /\ started' = FALSE
  /\ genCalls' = 0
  /\ transport' = "NONE"
  /\ UNCHANGED pure
  /\ UNCHANGED <<cv, retried, lastUser, userCount, facts, state, answers, iv>>

\* findNextUnprocessedRoleTitle(roles, processed), 0 for ''
findNextUnprocessedRoleTitle ==
  IF \E i \in 1..Len(cv) : i \notin processed
  THEN CHOOSE i \in 1..Len(cv) :
         i \notin processed /\ \A j \in 1..(i - 1) : j \in processed
  ELSE 0

\* continue after a rewrite: every role has a rewrite
PostContinueDone ==
  /\ turn = "server"
  /\ detectMode = "NORMAL"
  /\ ~looksLikeMultiRoleExperiencePasteStrong(lastUser)
  /\ Continues
  /\ findNextUnprocessedRoleTitle = 0
  /\ Emit(DoneText, 0, NoKind)
  /\ role' = 0
  /\ step' = NoStep
  /\ resp' = "DONE"
  /\ started' = FALSE
  /\ genCalls' = 0
  /\ transport' = "NONE"
  /\ UNCHANGED pure
  /\ UNCHANGED <<cv, retried, lastUser, userCount, facts, state, answers, iv>>

\* continue after a rewrite: the next role without a rewrite is started
PostContinueNext ==
  /\ turn = "server"
  /\ detectMode = "NORMAL"
  /\ ~looksLikeMultiRoleExperiencePasteStrong(lastUser)
  /\ Continues
  /\ findNextUnprocessedRoleTitle # 0
  /\ LET r == findNextUnprocessedRoleTitle
         factsFromRole == extractInterviewFactsFromText(cv[r].block)
         s == decideNextInterviewStep(shouldAskAcquisitionProcess(cv[r]),
                                      factsFromRole, freshState)
         \* 'jeśli z samego bloku wszystko jest -> od razu rewrite': the
         \* else branch nevertheless builds the result question
         q == IF s.kind = "ASK" THEN QuestionText(r, s, FALSE, freshState)
              ELSE buildResultQuestion(cv[r], FALSE)
         shown == IF s.kind = "ASK" THEN s.qk ELSE "RESULT"
     IN /\ Emit(IntroNext \cup q, r, shown)
        /\ role' = r
        /\ facts' = factsFromRole
        /\ state' = freshState
        /\ step' = s
        /\ answers' = {}
        /\ iv' = Asked(r, shown, TRUE)
  /\ resp' = "ASK"
  /\ started' = TRUE
  /\ genCalls' = 0
  /\ transport' = "NONE"
  /\ UNCHANGED pure
  /\ UNCHANGED <<cv, retried, lastUser, userCount>>

\* an interview state kept between requests: the count of questions of the
\* request before goes on instead of being rederived from the transcript
CarriedState ==
  LET st == computeInterviewState(win)
      lk == inferLastAskedKind(lastAssistant.text)
      kept == [st EXCEPT !.askedTotal = Inc(state.askedTotal, TotalCap)]
  IN IF lk # NoKind /\ looksLikeDeclineAnswer(lastUser)
     THEN [kept EXCEPT !.declinedCounts[lk] = Inc(@, CountCap)]
     ELSE kept

\* NORMAL, steps 4 and 5 and the last-turn bridge: the state
BridgedState ==
  LET st == computeInterviewState(win)
      lk == inferLastAskedKind(lastAssistant.text)
  IN IF lk # NoKind /\ looksLikeDeclineAnswer(lastUser)
     THEN [st EXCEPT !.declinedCounts[lk] = Inc(@, CountCap)]
     ELSE st

\* NORMAL, steps 4 and 5 and the last-turn bridge: the facts of role r
BridgedFacts(r) ==
  LET f == extractInterviewFactsFromText(
             cv[r].block \cup collectUserAnswers(win))
      lk == inferLastAskedKind(lastAssistant.text)
      sensible == normalizeAnswerForFacts(lastUser) # ""
                    /\ ~looksLikeDeclineAnswer(lastUser)
      f1 == IF lk = "RESULT" /\ sensible THEN [f EXCEPT !.hasResult = TRUE]
            ELSE f
  IN IF lk = "CONTEXT" /\ sensible
     THEN [f1 EXCEPT !.hasContext = TRUE, !.needsContext = FALSE]
     ELSE f1

NormalStep(r) ==
  decideNextInterviewStep(shouldAskAcquisitionProcess(cv[r]),
                          BridgedFacts(r), BridgedState)

Normal ==
  /\ turn = "server"
  /\ detectMode = "NORMAL"
  /\ ~looksLikeMultiRoleExperiencePasteStrong(lastUser)
  /\ ~Continues
  /\ SelectedRole # 0

\* extractRoleTitleFromRewrite(lastAssistantClean), 0 for ''
extractRoleTitleFromRewrite(m) == IF isRewrite(m.text) THEN m.title ELSE 0

\* NORMAL, step 6: the next question
PostAsk ==
  /\ Normal
  /\ NormalStep(SelectedRole).kind = "ASK"
  /\ LET r == SelectedRole
         s == NormalStep(r)
         st == BridgedState
         cant == userCannotShare(lastUser) \/ userNonAnswer(lastUser)
         q == QuestionText(r, s, cant, st)
         needIntro ==
           \/ isAudit(lastAssistant.text)
           \/ /\ extractRoleTitleFromRewrite(lastAssistant) # 0
              /\ extractRoleTitleFromRewrite(lastAssistant) # r
     IN /\ Emit((IF needIntro THEN IntroNow ELSE {}) \cup q,
                IF needIntro THEN r ELSE 0, s.qk)
        /\ role' = r
        /\ facts' = BridgedFacts(r)
        /\ state' = st
        /\ step' = s
        /\ answers' = win.answers
        /\ started' = (r # iv.role)
        /\ iv' = Asked(r, s.qk, r # iv.role)
  /\ resp' = "ASK"
  /\ genCalls' = 0
  /\ transport' = "NONE"
  /\ UNCHANGED pure
  /\ UNCHANGED <<cv, retried, lastUser, userCount>>

\* what the REWRITE branch can come to:
\*   "ERROR"     line 3664 reads userFactsTextEffective, which no scope
\*               declares: the read throws and the outer catch answers 500
\*   "GENERATED" the generator's text passes the guards
\*   "FALLBACK"  the generator's text was rejected
\*   "FAILED"    the call timed out or failed at transport level
\* The two const redeclarations of the handler (lastUserClean, allowedFacts)
\* are read as rebinding.
RewriteOutcomes == {"ERROR", "GENERATED", "FALLBACK", "FAILED"}

\* NORMAL, step 7: the rewrite
PostRewrite(outcome) ==
  /\ Normal
  /\ NormalStep(SelectedRole).kind = "REWRITE"
  /\ LET r == SelectedRole
     IN /\ role' = r
        /\ facts' = BridgedFacts(r)
        /\ state' = BridgedState
        /\ step' = NormalStep(r)
        /\ answers' = win.answers
        /\ IF outcome = "ERROR"
           THEN /\ resp' = "ERROR"
                /\ genCalls' = 0
                /\ transport' = "NONE"
                /\ started' = FALSE
                /\ turn' = "user"
                /\ UNCHANGED <<lastAssistant, win, convRole, auditShown,
                               processed, iv>>
           ELSE /\ resp' = IF outcome = "FAILED" THEN "FALLBACK" ELSE outcome
                \* one callOpenAI, then the guards, then the fallback;
                \* a call that throws leaves llmOut = ''
                /\ genCalls' = 1
                /\ transport' = IF outcome = "FAILED" THEN "FAILED" ELSE "OK"
                /\ started' = (r # iv.role)
                /\ iv' = Asked(r, NoKind, r # iv.role)
                /\ Emit(RewriteText, r, NoKind)
  /\ UNCHANGED pure
  /\ UNCHANGED <<cv, retried, lastUser, userCount>>

(***************************************************************************)
(* The user.                                                               *)
(***************************************************************************)
\* the replies a user gives to what is on the screen
Offered ==
  IF resp = "ASK"
  THEN Declines \cup {"vague", Answer(lastAssistant.qk)}
  ELSE IF resp = "AUDIT"
  THEN {u \in {"1", "2"} : extractChosenNumber(u) <= Len(cv)} \cup {"vague"}
  ELSE IF resp \in {"GENERATED", "FALLBACK"}
  THEN {"tak"} \cup
       (IF auditShown
        THEN {u \in {"1", "2"} : /\ extractChosenNumber(u) <= Len(cv)
                                 /\ extractChosenNumber(u) \notin processed}
        ELSE {})
  ELSE IF resp = "INTRO" THEN {"tak"}
  ELSE {}

\* the interview as it was really held: a decline, a latching answer
Answered(u) ==
  LET k == lastAssistant.qk
  IN IF k = NoKind THEN iv
     ELSE IF u = "nie wiem" THEN [iv EXCEPT !.declined = @ \cup {k}]
     ELSE IF u \notin Declines /\ k \in {"RESULT", "CONTEXT"}
     THEN [iv EXCEPT !.latched = @ \cup {k}]
     ELSE iv

UserReply(u) ==
  /\ turn = "user"
  /\ u \in Offered
  /\ lastUser' = u
  /\ userCount' = Inc(userCount, 2)
  /\ win' = ScanUser(win, u, iv.role)
  /\ iv' = Answered(u)
  /\ turn' = "server"
  /\ retried' = FALSE
  /\ UNCHANGED pure
  /\ UNCHANGED <<cv, lastAssistant, auditShown, processed, convRole, role,
                 facts, state, step, resp, answers, started, genCalls,
                 transport>>

\* after an error the client sends the same transcript again
UserRetry ==
  /\ turn = "user"
  /\ resp = "ERROR"
  /\ turn' = "server"
  /\ retried' = TRUE
  /\ UNCHANGED pure
  /\ UNCHANGED <<cv, lastUser, lastAssistant, userCount, auditShown, processed,
                 convRole, win, role, facts, state, step, resp, answers,
                 started, genCalls, transport, iv>>

Next ==
  \/ PostAuditOnlySingle
  \/ PostAudit
  \/ PostContinueDone
  \/ PostContinueNext
  \/ PostAsk
  \/ \E o \in RewriteOutcomes : PostRewrite(o)
  \/ \E u \in Replies : UserReply(u)
  \/ UserRetry

Spec == Init /\ [][Next]_vars

(***************************************************************************)
(* Conversations over a CV with one role.  The handler answers every       *)
(* request and the user goes on replying while a reply is asked for.       *)
(***************************************************************************)
InitLive == Init /\ Len(cv) = 1

NextLive ==
  \/ PostAuditOnlySingle
  \/ PostAsk
  \/ \E o \in RewriteOutcomes : PostRewrite(o)
  \/ PostContinueDone
  \/ \E u \in Replies : UserReply(u)
  \/ UserRetry

SpecLive == InitLive /\ [][NextLive]_vars /\ WF_vars(NextLive)

(***************************************************************************)
(* The numeric guard on its own: one check of one output against one      *)
(* allowed-fact text.                                                      *)
(***************************************************************************)
ConversationIdle ==
  InitConversation /\ cv = <<Role("GENERIC", FALSE, Complete)>>

InitGuard ==
  /\ ConversationIdle
  /\ out \in Texts(MaxText)
  /\ allowedFacts \in Texts(MaxAllowed)
  /\ invalid = "NONE"
  /\ roleBlockText = <<>>
  /\ userFactsText = <<>>
  /\ fallback = <<>>
  /\ NoCall

\* the hasUnverifiedNumbers(out, allowedFacts) disjunct of invalid
CheckNumbers ==
  /\ invalid = "NONE"
  /\ invalid' = IF hasUnverifiedNumbers(out, allowedFacts) THEN "YES" ELSE "NO"
  /\ UNCHANGED <<cv, retried, turn, lastUser, lastAssistant, userCount, auditShown,
                 processed, convRole, win, role, facts, state, step, resp,
                 answers, started, genCalls, transport, iv, out, allowedFacts,
                 roleBlockText, userFactsText, fallback, call, args, result>>

SpecGuard == InitGuard /\ [][CheckNumbers]_vars

(***************************************************************************)
(* The deterministic fallback on its own.                                  *)
(***************************************************************************)
InitFallback ==
  /\ ConversationIdle
  /\ out = <<>>
  /\ allowedFacts = <<>>
  /\ invalid = "NONE"
  /\ roleBlockText \in LineTexts(MaxBlockLines)
  /\ userFactsText \in LineTexts(MaxFactLines)
  /\ fallback = <<>>
  /\ NoCall

BuildFallback ==
  /\ fallback = <<>>
  /\ fallback' =
       buildDeterministicRewriteFallback(RoleTitle, roleBlockText, userFactsText)
  /\ UNCHANGED <<cv, retried, turn, lastUser, lastAssistant, userCount, auditShown,
                 processed, convRole, win, role, facts, state, step, resp,
                 answers, started, genCalls, transport, iv, out, allowedFacts,
                 invalid,
                 roleBlockText, userFactsText, call, args, result>>

SpecFallback == InitFallback /\ [][BuildFallback]_vars

(***************************************************************************)
(* The text functions on their own: call names the function applied, args  *)
(* holds its arguments and result what it returned.                        *)
(***************************************************************************)
TextIdle ==
  /\ ConversationIdle
  /\ out = <<>>
  /\ allowedFacts = <<>>
  /\ invalid = "NONE"
  /\ roleBlockText = <<>>
  /\ userFactsText = <<>>
  /\ fallback = <<>>

Pending == <<>>

InitRewrite ==
  /\ call = "rewrite"
  /\ args \in [llmOut : Generated, selectedRoleTitle : RoleTitles,
                roleBlockText : RoleBlocks,
                userFactsText : {<<>>, <<<<"de">>>>}]

InitDedupe ==
  /\ call = "dedupeRoles"
  /\ args \in [roles : UNION {[1..n -> [title : TitleTexts, dates : DateTexts]] :
                                n \in 0..MaxRoleList}]

InitPreprocess ==
  /\ call = "preprocessCvSource"
  /\ args \in [text : CvTexts(MaxCvLines)]

InitSegment ==
  /\ call = "parseExperienceIntoRoleBlocks"
  /\ args \in [input : UNION {CvsOf(n) : n \in 1..MaxHeaders}, long : BOOLEAN]

InitHeader ==
  /\ call = "tryParseOneLineRoleHeader"
  /\ args \in [line : HeaderTexts, next : HeaderTexts]

InitPost ==
  /\ call = "POST"
  /\ args \in RoleLessRequests

InitFacts ==
  /\ call = "extractInterviewFactsFromText"
  /\ args \in [text : {t \in SUBSET Phrases :
                          Cardinality(t) \in 1..MaxPhrases},
                lastAsked : {NoKind, "RESULT", "CONTEXT"}]

InitDomain ==
  /\ call = "inferRoleDomain"
  /\ args \in [title : {t \in SUBSET TitleWords :
                           Cardinality(t) <= MaxTitleWords},
                body : {b \in SUBSET RoleBodyWords :
                          Cardinality(b) <= MaxDomainWords}]

InitProgress ==
  /\ call = "findNextUnprocessedRoleTitle"
  /\ \E cvRoles \in UNION {[1..n -> [title : ProgressTitles, dates : ProgressDates]] :
                              n \in 1..MaxProgressRoles} :
       \E rewritten \in SUBSET Rewritable(dedupeRoles(cvRoles)) :
         /\ rewritten # {}
         /\ args = [roles |-> cvRoles, rewritten |-> rewritten]

InitChoice ==
  /\ call = "extractRoleTitleFromAuditByNumber"
  /\ \E cvRoles \in UNION {[1..n -> [title : ProgressTitles, dates : ProgressDates]] :
                              n \in 1..MaxProgressRoles} :
       \E n \in 1..Len(dedupeRoles(cvRoles)) :
         args = [roles |-> cvRoles, n |-> n]

InitText ==
  /\ TextIdle
  /\ result = Pending
  /\ \/ InitRewrite
     \/ InitDedupe
     \/ InitPreprocess
     \/ InitSegment
     \/ InitHeader
     \/ InitPost
     \/ InitFacts
     \/ InitDomain
     \/ InitProgress
     \/ InitChoice

TextUnchanged ==
  UNCHANGED <<cv, retried, turn, lastUser, lastAssistant, userCount, auditShown,
              processed, convRole, win, role, facts, state, step, resp,
              answers, started, genCalls, transport, iv, out, allowedFacts,
              invalid, roleBlockText, userFactsText, fallback, call, args>>

\* the REWRITE branch from the generator's output to the response
ReturnRewrite ==
  /\ call = "rewrite"
  /\ result = Pending
  /\ result' =
       [assistantText |->
          RewriteReturned(args.llmOut, args.selectedRoleTitle,
                          args.roleBlockText, args.userFactsText),
        fromGenerator |->
          FromGenerator(args.llmOut, args.selectedRoleTitle,
                        args.roleBlockText)]
  /\ TextUnchanged

\* dedupeRoles, and dedupeRoles of what it returned
DedupeRoles ==
  /\ call = "dedupeRoles"
  /\ result = Pending
  /\ result' = [roles |-> dedupeRoles(args.roles),
                again |-> dedupeRoles(dedupeRoles(args.roles))]
  /\ TextUnchanged

\* preprocessCvSource, and preprocessCvSource of what it returned
Preprocess ==
  /\ call = "preprocessCvSource"
  /\ result = Pending
  /\ result' = [once |-> preprocessCvSource(args.text),
                twice |-> preprocessCvSource(preprocessCvSource(args.text))]
  /\ TextUnchanged

Segment ==
  /\ call = "parseExperienceIntoRoleBlocks"
  /\ result = Pending
  /\ result' = [blocks |-> parseExperienceIntoRoleBlocks(args.input, args.long)]
  /\ TextUnchanged

\* the loop of the header test: each line alone, and with the line after it
ParseHeader ==
  /\ call = "tryParseOneLineRoleHeader"
  /\ result = Pending
  /\ result' = [one |-> tryParseOneLineRoleHeader(args.line),
                parsed |-> parseOneLineRoleHeader(args.line),
                two |-> tryParseTwoLineRoleHeader(args.line, args.next)]
  /\ TextUnchanged

\* POST on a request over a text without roles
PostNoRole ==
  /\ call = "POST"
  /\ result = Pending
  /\ result' = POST(args.cvText, args.messages)
  /\ TextUnchanged

\* the facts of a role's text and the step the handler decides on
DecideStep ==
  /\ call = "extractInterviewFactsFromText"
  /\ result = Pending
  /\ result' = StepOver(args.text, args.lastAsked)
  /\ TextUnchanged

ClassifyDomain ==
  /\ call = "inferRoleDomain"
  /\ result = Pending
  /\ result' = DomainUses(args.title, args.body)
  /\ TextUnchanged

ContinueRole ==
  /\ call = "findNextUnprocessedRoleTitle"
  /\ result = Pending
  /\ result' = ContinueAfterRewrite(args.roles, args.rewritten)
  /\ TextUnchanged

ChooseRole ==
  /\ call = "extractRoleTitleFromAuditByNumber"
  /\ result = Pending
  /\ result' = ChooseByNumber(args.roles, args.n)
  /\ TextUnchanged

NextText ==
  \/ ReturnRewrite
  \/ DedupeRoles
  \/ Preprocess
  \/ Segment
  \/ ParseHeader
  \/ PostNoRole
  \/ DecideStep
  \/ ClassifyDomain
  \/ ContinueRole
  \/ ChooseRole

SpecText == InitText /\ [][NextText]_vars

(***************************************************************************)
(* Properties.                                                             *)
(***************************************************************************)
\* a response has just been computed for some role
Decided == turn = "user" /\ role # 0 /\ step.kind # "NONE"

\* a question is on the screen
Asking == turn = "user" /\ resp = "ASK"

\* C1 Decline-then-closed: within the interview of one role no kind of
\* question is shown a third time, and none is shown again after the user
\* declined a question of that kind.
C1_DeclineThenClosed ==
  /\ \A k \in QuestionKind : iv.asked[k] <= 2
  /\ Asking => lastAssistant.qk \notin iv.declined

\* C2 Hard cap: at most 6 questions are shown within the interview of one
\* role; once 6 have been shown the step is REWRITE.
C2_HardCap == iv.total <= maxQuestions

\* C3 Bounded interview: whatever the user replies, a role's interview reaches
\* the REWRITE step after finitely many turns.
C3_BoundedInterview == Asking ~> (step.kind = "REWRITE")

\* the fixed order of the fact kinds
Order == <<"ACTIONS", "SCALE", "PROCESS", "RESULT", "CONTEXT">>

Missing(f, k) ==
  CASE k = "ACTIONS" -> ~f.hasActions
    [] k = "SCALE" -> ~f.hasScale
    [] k = "PROCESS" -> ~f.hasProcess
    [] k = "RESULT" -> ~f.hasResult
    [] k = "CONTEXT" -> ~f.hasContext

Closed(st, k) == st.declinedCounts[k] >= 1 \/ st.askedCounts[k] >= 2

Qualifies(i) ==
  LET k == Order[i]
  IN /\ Missing(facts, k)
     /\ ~Closed(state, k)
     /\ k = "PROCESS" => shouldAskAcquisitionProcess(cv[role])
     /\ k = "CONTEXT" => facts.hasResult

\* C4 Priority order: the step is ASK for the first kind, in the order Actions,
\* Scale, Process (when acquisition-relevant), Result, Context (when Result is
\* present), that is missing and not closed; it is REWRITE exactly when no
\* kind qualifies or 6 questions are counted.  No other question is shown
\* while Actions is missing and open.
C4_PriorityOrder ==
  Decided =>
    LET Q == {i \in 1..5 : Qualifies(i)}
    IN /\ IF state.askedTotal >= 6 \/ Q = {}
          THEN step.kind = "REWRITE"
          ELSE step = Ask(Order[CHOOSE i \in Q : \A j \in Q : i <= j])
       /\ (Asking /\ lastAssistant.qk # "ACTIONS")
            => (facts.hasActions \/ Closed(state, "ACTIONS"))

\* Actions is missing but closed, Scale is present, and Result is asked
C4_Witness ==
  /\ Decided
  /\ step = Ask("RESULT")
  /\ ~facts.hasActions
  /\ Closed(state, "ACTIONS")
  /\ facts.hasScale

\* C5 Latch persistence: after a non-declining answer to a Result (Context)
\* question, Result (Context) counts as present on every later turn of the
\* role's interview and that kind is not asked again.
C5_LatchPersistence ==
  Decided =>
    /\ "RESULT" \in iv.latched => facts.hasResult
    /\ "CONTEXT" \in iv.latched => facts.hasContext
    /\ Asking => lastAssistant.qk \notin iv.latched

\* C6 Reset on new role: the InterviewState that decides the first question
\* of a newly started role has every asked and declined counter at zero.
C6_ResetOnNewRole ==
  (Decided /\ started /\ step.kind = "ASK") => state = freshState

\* the answers collected that were given for the role being processed
OwnAnswers == {a[2] : a \in {b \in answers : b[1] = role}}
\* all the answers collected
AllAnswers == {a[2] : a \in answers}

\* C7 Fact scope: the FactSet of the role being processed is the one computed
\* from its block and the answers given in its own interview; answers given
\* during another role's interview do not change it.
C7_FactScope ==
  Decided =>
    extractInterviewFactsFromText(cv[role].block \cup AllAnswers)
      = extractInterviewFactsFromText(cv[role].block \cup OwnAnswers)

\* the numerals of a text, read as its maximal runs of digits
DigitRuns(s) ==
  {SubSeq(s, i, i + RunLen(s, i) - 1) :
     i \in {j \in 1..Len(s) : IsDigitAt(s, j) /\ ~IsDigitAt(s, j - 1)}}
\* r occurs in t
Occurs(r, t) ==
  \E i \in 1..(Len(t) - Len(r) + 1) : SubSeq(t, i, i + Len(r) - 1) = r

\* C8 Numeric-leak guard: an output holding a numeral that the allowed-fact
\* text holds in no form, whatever separators are dropped from that text and
\* whatever the numeral is attached to in the output, is rejected.
C8_NumericLeakGuard ==
  (/\ invalid # "NONE"
   /\ \E r \in DigitRuns(out) :
        ~Occurs(r, Remove(allowedFacts, {" ", ".", ",", "_"})))
    => invalid = "YES"

\* C9 Fallback is always well-formed: for every role block and every set of
\* answers the fallback has the BEFORE and AFTER markers, both named variants
\* with 3 to 8 bullet lines each, variants that differ, and the call to
\* action as its last line.
C9_FallbackWellFormed ==
  fallback # <<>> =>
    /\ HasMarker(fallback, "=== BEFORE")
    /\ HasMarker(fallback, "=== AFTER")
    /\ HasMarker(fallback, "Wersja A (bezpieczna):")
    /\ HasMarker(fallback, "Wersja B (mocniejsza):")
    /\ LET a == BulletsOf(Section(fallback, "Wersja A (bezpieczna):",
                                  {"Wersja B (mocniejsza):"}))
           b == BulletsOf(Section(fallback, "Wersja B (mocniejsza):",
                                  {"Chcesz poprawic kolejna role?"}))
       IN  /\ Len(a) >= 3 /\ Len(a) <= 8
           /\ Len(b) >= 3 /\ Len(b) <= 8
           /\ a # b
    /\ fallback[Len(fallback)][1] = "Chcesz poprawic kolejna role?"

BeforeBody(t) ==
  LET body == SelectSeq(Section(t, "=== BEFORE", {"=== AFTER"}),
                        LAMBDA l : l # Blank)
  IN  [i \in 1..Len(body) |-> body[i][2]]

\* C12 BEFORE overwrite: in every rewrite returned to the user, whatever the
\* generator wrote, the text between the BEFORE marker and the AFTER marker
\* is exactly the first at most 12 non-empty lines of the source role block.
C12_BeforeOverwrite ==
  (call = "rewrite" /\ result # Pending) =>
    BeforeBody(result.assistantText)
      = Rendered(Slice(NonBlank(args.roleBlockText), 12))

C14_DedupeRoles ==
  (call = "dedupeRoles" /\ result # Pending) =>
    LET in == args.roles
        got == result.roles
        keyIn(i) == roleKey(RoleTitleOf(in[i]), RoleDatesOf(in[i]))
        keyGot(n) == roleKey(got[n].title, got[n].dates)
        first(n) == Least({i \in 1..Len(in) : keyIn(i) = keyGot(n)})
    IN  /\ \A i \in 1..Len(in) :
             Cardinality({n \in 1..Len(got) : keyGot(n) = keyIn(i)}) = 1
        /\ \A n \in 1..Len(got) :
             /\ \E i \in 1..Len(in) : keyIn(i) = keyGot(n)
             /\ got[n].title = RoleTitleOf(in[first(n)])
             /\ got[n].dates = RoleDatesOf(in[first(n)])
        /\ \A n, o \in 1..Len(got) : n < o => first(n) < first(o)
        /\ result.again = got

\* a list of which a later role was collapsed into an earlier one written
\* differently, with two roles kept
C14_Witness ==
  /\ call = "dedupeRoles"
  /\ result # Pending
  /\ Len(result.roles) = 2
  /\ Len(args.roles) = 3
  /\ \E i, j \in 1..3 :
       /\ i < j
       /\ args.roles[i].title # args.roles[j].title
       /\ roleKey(args.roles[i].title, RoleDatesOf(args.roles[i]))
            = roleKey(args.roles[j].title, RoleDatesOf(args.roles[j]))

\* C15 Normalizer idempotence: for every input text x, preprocessCvSource of
\* preprocessCvSource(x) is preprocessCvSource(x).
C15_NormalizerIdempotent ==
  (call = "preprocessCvSource" /\ result # Pending) =>
    result.twice = result.once

\* C16 Segmentation of one-line headers: for input made of N well-formed
\* one-line headers, each followed by body text, the segmenter returns exactly
\* N role blocks in source order, each with the title of its header and the
\* date range of its header; no header line is absorbed into the body of the
\* block before it.
C16_Segmentation ==
  (call = "parseExperienceIntoRoleBlocks" /\ result # Pending) =>
    LET headers == SelectSeq(args.input, LAMBDA l : l.kind = "header")
        blocks == result.blocks
    IN  /\ Len(blocks) = Len(headers)
        /\ \A i \in 1..Len(blocks) :
             /\ blocks[i].title = headers[i].title
             /\ blocks[i].datesLine = headers[i].dates
             /\ \A k \in 1..Len(blocks[i].bodyLines) :
                  blocks[i].bodyLines[k].kind = "bullet"

\* C17 Header parsing as tested: a one-line header 'Title - Company, City |
\* dates' whose title has a job-title word parses to that title; a line
\* 'Company, City | dates' with no title separator and no job-title word
\* gives no role; a title line with a job-title word followed by a line
\* 'Company, City | dates' parses to the title line.
C17_HeaderParsing ==
  (call = "tryParseOneLineRoleHeader" /\ result # Pending) =>
    LET companyCity == <<"Papaka", ",", "Warszawa", "|", DateRange>>
    IN  /\ \A t \in {<<"Specialist">>, <<"QA">>} :
             args.line = t \o <<"-">> \o companyCity =>
               result.one.title = t
        /\ args.line = companyCity => result.one = NoHeader
        /\ (hasRoleWords(args.line) /\ args.line \in HeaderSegments
              /\ ~Has(args.line, {","}) /\ args.next = companyCity) =>
              result.two.title = args.line

\* C18 No role parsed: for every request whose text yields no role block
\* (empty or unparseable input) and that names no role, the response is the
\* onboarding message: no question, audit listing or rewrite, and no error
\* status.
C18_NoRoleParsed ==
  (call = "POST" /\ result # Pending) =>
    /\ result.status = 200
    /\ result.assistantText \in {Onboarding, OnboardingEmpty}
    /\ result.qk = NoKind
    /\ ~isAudit(result.assistantText)
    /\ ~isRewrite(result.assistantText)

\* C19 Explicit delta: for a role text that states an explicit percentage
\* delta ('from 10% to 18% year over year') the facts have hasResult and
\* hasContext, and neither a Result nor a Context question is asked.
C19_ExplicitDelta ==
  (call = "extractInterviewFactsFromText" /\ result # Pending
     /\ args.text \cap DeltaPhrases # {}) =>
    /\ result.facts.hasResult
    /\ result.facts.hasContext
    /\ result.step.qk \notin {"RESULT", "CONTEXT"}

\* C20 Ceiling result: when the role's text states a ceiling result (100%,
\* zero incidents, always on time), Result counts as present and no Context
\* question is asked.
C20_CeilingResult ==
  (call = "extractInterviewFactsFromText" /\ result # Pending
     /\ args.text \cap CeilingPhrases # {}) =>
    /\ result.facts.hasResult
    /\ result.step.qk # "CONTEXT"

\* the marks of KPI and metric vocabulary
KpiVocabulary == {"delta", "outcome", "qualitative", "kpiword", "volume"}

\* C21 No numerals, no KPI vocabulary: for every role text with no numeral
\* outside dates and no KPI or metric vocabulary, the facts have hasScale =
\* false and hasResult = false.
C21_NoNumeralsNoKpi ==
  (call = "extractInterviewFactsFromText" /\ result # Pending
     /\ ~hasAnyNumber(MarksOf(args.text))
     /\ MarksOf(args.text) \cap KpiVocabulary = {}) =>
    /\ ~result.facts.hasScale
    /\ ~result.facts.hasResult

\* the domains whose vocabulary the title contains
TitleDomains(title) == UNION {TitleVocabulary(w) : w \in title}

\* C22 Domain precedence: wherever the domain of a role is used (the wording
\* of a question, the acquisition-process test, the hints), a title with
\* vocabulary of domain D gives D whatever the body contains; the body
\* decides only when the title matches no domain.
C22_DomainPrecedence ==
  (call = "inferRoleDomain" /\ result # Pending) =>
    LET D == TitleDomains(args.title)
    IN  /\ D # {} =>
              /\ result.question \in D
              /\ result.acquisition \in D
              /\ result.hint \in D
        /\ D = {} =>
              /\ result.question = inferRoleDomain({}, args.body)
              /\ result.acquisition = inferRoleDomain({}, args.body)
              /\ result.hint = inferRoleDomain({}, args.body)

\* the roles of the list, in source order, with no rewrite in the transcript
Unrewritten(roles, rewritten) == {i \in 1..Len(roles) : i \notin rewritten}

\* C23 Role progression: after a rewrite and a confirmation to continue, the
\* next role is the first role in source order with no rewrite in the
\* transcript; a role with a rewrite is never started again; when every role
\* has a rewrite the 'no further roles' message is returned.
C23_RoleProgression ==
  (call = "findNextUnprocessedRoleTitle" /\ result # Pending) =>
    LET open == Unrewritten(result.roles, args.rewritten)
    IN  /\ result.done <=> open = {}
        /\ ~result.done =>
              /\ result.next \in open
              /\ \A j \in open : result.next <= j
              /\ result.block = result.next

\* a copy of the CTA line, plain or behind a bullet
IsCtaCopy(l) == l[1] = CTA \/ l[2] = CTA

\* C24 Single CTA: every returned rewrite contains the CTA line exactly once,
\* as its last line, however many copies, plain or bulleted, the generator
\* produced; ensureRewriteCta applied again changes nothing.
C24_SingleCta ==
  (call = "rewrite" /\ result # Pending) =>
    LET t == result.assistantText
    IN  /\ Cardinality({i \in 1..Len(t) : IsCtaCopy(t[i])}) = 1
        /\ t[Len(t)] = <<CTA, "">>
        /\ ensureRewriteCta(t) = t

\* the lines of a version of a rewrite: below its header, up to the header
\* of the other version or the CTA, the blank lines left out
VersionLines(t, header) ==
  LET at == {i \in 1..Len(t) : t[i][1] = header}
      from == CHOOSE i \in at : \A j \in at : i <= j
      stops == {i \in (from + 1)..Len(t) :
                  t[i][1] \in {"Wersja B (mocniejsza):", CTA}}
      to == IF stops = {} THEN Len(t) + 1
            ELSE CHOOSE i \in stops : \A j \in stops : i <= j
  IN  SelectSeq(SubSeq(t, from + 1, to - 1), LAMBDA l : l # Blank)

C26_NothingMissingAtStart ==
  (turn = "user" /\ started /\ resp \in {"ASK", "INTRO"}
     /\ step.kind = "REWRITE") =>
    /\ lastAssistant.qk = NoKind
    /\ lastAssistant.text \cap buildResultQuestion(cv[role], FALSE) = {}

\* C27 Question round trip: every question text emitted for kind k is
\* classified as k, and as no other kind, by inferQuestionKindFromAssistant
\* and by inferLastAskedKind when the next request reads it back.
C27_QuestionRoundTrip ==
  (turn = "user" /\ lastAssistant.qk # NoKind) =>
    /\ inferQuestionKindFromAssistant(lastAssistant.text) = lastAssistant.qk
    /\ inferLastAskedKind(lastAssistant.text) = lastAssistant.qk

\* C28 Closure is monotone: within the interview of one role a kind that is
\* closed when one response is decided is closed when every later response
\* is decided; a reply counted as a decline on its turn is still counted
\* when the state is rebuilt on the next turn.
C28_ClosureMonotone ==
  [][(/\ turn = "server" /\ role # 0 /\ step.kind # "NONE"
      /\ Decided'
      /\ role' = role
      /\ iv'.role = iv.role
      /\ ~started')
       => \A k \in QuestionKind :
            /\ Closed(state, k) => Closed(state', k)
            /\ state.declinedCounts[k] > 0 => state'.declinedCounts[k] > 0]_vars

\* C29 Audit choice round trip: a listing of N roles is recognised as a
\* numbered audit on the next turn, its prompt names the range 1-N, and a
\* reply n in 1..N starts the interview for the n-th listed role.
C29_AuditChoice ==
  (call = "extractRoleTitleFromAuditByNumber" /\ result # Pending) =>
    LET N == Len(result.roles)
    IN  /\ result.numbered
        /\ result.audit.prompt = [first |-> 1, last |-> N]
        /\ result.title = result.roles[args.n].title
        /\ result.block = args.n

\* the generated rewrite that passes the number check holds only numerals
\* of the allowed-fact text
GeneratorFactSafe ==
  invalid = "NO" =>
    \A r \in DigitRuns(out) :
      Occurs(r, Remove(allowedFacts, {" ", ".", ",", "_"}))

\* the lines of the role block and of the answers
AllowedLines ==
  {roleBlockText[i] : i \in 1..Len(roleBlockText)}
    \cup {userFactsText[i] : i \in 1..Len(userFactsText)}

\* every bullet of the fallback is a line of the allowed-fact text, or names
\* a tool that a line of it names
FallbackFactSafe ==
  fallback # <<>> =>
    LET bullets == BulletsOf(fallback)
    IN  \A i \in 1..Len(bullets) :
          \/ bullets[i][2] \in AllowedLines
          \/ /\ bullets[i][1] = "- Proces / narzedzia:"
             /\ \E l \in AllowedLines : HasTool(l)

\* C30 End-to-end fact safety: a rewrite that is returned, generated or
\* fallback, holds no numeral that the role block and the answers do not
\* hold, and every bullet of a fallback is built from lines of that text.
C30_FactSafety == GeneratorFactSafe /\ FallbackFactSafe

====
